---- MODULE Spec2Model ----
(***************************************************************************)
(* Verification model of the VoiceOfFaith REST backend.                    *)
(*                                                                         *)
(* The module is organised by subsystem, each with its own specification:  *)
(*   SpecUsers     - invitation lifecycle (UserService, AuthService)       *)
(*   SpecGate      - role gates (middleware/auth.js, auth.middleware.js)   *)
(*   SpecResources - audios, sermons, events, posts and their controllers  *)
(*   SpecCounters  - concurrent counter increments                         *)
(*   SpecPages     - paginated listings                                    *)
(*   SpecAdminRoutes, SpecCustomToken, SpecLive, SpecErrors - the routed   *)
(*   invitation, generate-custom-token, the live setting, error responses  *)
(*   SpecAuth, SpecGateRoles, SpecContainer, SpecRetry - login and         *)
(*   verifyToken, gates under role changes, the container, retried creates *)
(*   SpecResetRace, SpecInviteRace, SpecLiveRace - two concurrent calls    *)
(* External collaborators (identity provider, document store, mail relay)  *)
(* are modelled by the observable effect of the calls the code makes.      *)
(***************************************************************************)
EXTENDS Integers, FiniteSets, Sequences, TLC

(***************************************************************************)
(* Bounds                                                                  *)
(***************************************************************************)
\* number of identities the provider hands out during a run
MaxUids == 1
\* number of invitation tokens uuidv4() is asked for during a run
MaxTokens == 2
\* number of token-bearing users (besides the admin) sending gated requests
MaxGateUsers == 2
\* number of content documents created during a run
MaxDocs == 1
\* number of objects uploaded to the bucket during a run
MaxFiles == 2
\* number of concurrent increment calls
MaxCallers == 3
\* largest counter value before the calls
MaxStart == 1
\* size of the largest collection listed
MaxItems == 25
\* largest page number requested
MaxPage == 3

(***************************************************************************)
(* Value domains                                                           *)
(***************************************************************************)
Emails == {"a@b.com", "c@d.com"}
Roles == {"user", "pasteur", "media", "admin"}
InviteRoles == {"pasteur", "media"}
ModeratorRoles == {"admin", "pasteur", "media"}
Passwords == {"pw1", "pw2"}
TempPassword == "tmp"
AdminUid == 0
NoUid == -1
NullToken == 0
Uids == 0..MaxUids
\* ids the admin endpoints are called with (uids handed out to invited users)
InvitedUids == 1..MaxUids
TokenIds == 1..MaxTokens
GateUids == 1..MaxGateUsers
\* which external call of a handler rejects ("none": all succeed)
InviteFailures == {"none", "create", "set", "mail"}
DeleteFailures == {"none", "auth", "db"}

VARIABLES
  identities,   \* identity provider: uid -> [email, password]
  users,        \* collection 'users': uid -> profile document
  nextUid,      \* next uid the identity provider will hand out
  nextToken,    \* next value uuidv4() returns (fresh, never repeated)
  resetCount,   \* history: successful password resets per token (capped at 2)
  superseded,   \* history: tokens overwritten by resendInvitation
  last,         \* outcome of the last service call
  \* --- one HTTP request passing a role gate (middleware) ---
  serverUp,     \* the HTTP server accepts requests
  req,          \* the request in the gate: gate, impl, header, user (req.user)
  pc,           \* position of the gate's promise chain
  pendingErr,   \* rejection reason travelling to .catch(next)
  nextCalls,    \* times the downstream next() was invoked for the request
  responses,    \* HTTP statuses written to res for the request
  errorHandlerCalls, \* invocations of the global errorHandler for the request
  unhandled,    \* promise rejections no handler received
  \* --- content resources (audios, sermons, events, posts) ---
  docs,         \* content documents: id -> [type, owner, updated, urlA, urlB]
  files,        \* objects present in the storage bucket
  nextDoc,      \* next document id the store generates
  nextFile,     \* next object name uuidv4() yields for an upload
  http,         \* the HTTP exchange of the last content request
  push,         \* the topic broadcast attempted during the last request
  \* --- counters of one audio, one sermon and one post ---
  counters,     \* stored value of each counter field
  start,        \* history: the counters before the first call
  calls,        \* concurrent service calls: caller -> [op, pc, snapshot]
  \* --- paginated listings ---
  collName,     \* the collection under query: "users" or "posts"
  collection,   \* its documents: id -> [createdAt, key]
  listing,      \* the result of the last list call
  \* --- POST /api/auth/generate-custom-token ---
  issuedTo,     \* callers a custom token was handed to
  tokenReply,   \* the exchange of the last generate-custom-token request
  \* --- live setting (settings/app_settings) ---
  liveSetting,  \* the singleton document
  liveReply,    \* the exchange of the last live request
  \* --- global error handler (middleware/errorHandler.js) ---
  nodeEnv,      \* appConfig.env of the process
  errorReply,   \* the response errorHandler sent last, with the exception behind it
  \* --- bearer tokens in the clients' hands ---
  issuedRole,   \* history: uid -> stored role when the caller's bearer token was issued
  \* --- service container (config/serviceContainer.js) ---
  containerImpl,\* which copy of the container class the process loaded
  services,     \* names registered in the container's map
  bootPc,       \* position of initialize(): index of the next register call
  initialized,  \* this.initialized
  bootFailed,   \* initialize() rejected
  lookup,       \* the last container.get of a request handler
  \* --- service calls in flight, suspended at their awaits ---
  tasks,        \* task -> the call it runs: [op, pc, arguments, locals, result]
  before        \* history: the document the calls started from

userVars == <<identities, users, nextUid, nextToken, resetCount, superseded, last>>
gateVars ==
  <<serverUp, req, pc, pendingErr, nextCalls, responses, errorHandlerCalls, unhandled>>
resVars == <<docs, files, nextDoc, nextFile, http, push>>
cntVars == <<counters, start, calls>>
pageVars == <<collName, collection, listing>>
tokVars == <<issuedTo, tokenReply>>
liveVars == <<liveSetting, liveReply>>
errVars == <<nodeEnv, errorReply>>
sessVars == <<issuedRole>>
boxVars == <<containerImpl, services, bootPc, initialized, bootFailed, lookup>>
taskVars == <<tasks, before>>
vars ==
  <<userVars, gateVars, resVars, cntVars, pageVars, tokVars, liveVars, errVars, sessVars,
    boxVars, taskVars>>
notUserVars ==
  <<gateVars, resVars, cntVars, pageVars, tokVars, liveVars, errVars, sessVars, boxVars,
    taskVars>>
notGateVars ==
  <<userVars, resVars, cntVars, pageVars, tokVars, liveVars, errVars, sessVars, boxVars,
    taskVars>>
notResVars ==
  <<userVars, gateVars, cntVars, pageVars, tokVars, liveVars, errVars, sessVars, boxVars,
    taskVars>>
notCntVars ==
  <<userVars, gateVars, resVars, pageVars, tokVars, liveVars, errVars, sessVars, boxVars,
    taskVars>>
notPageVars ==
  <<userVars, gateVars, resVars, cntVars, liveVars, tokVars, errVars, sessVars, boxVars,
    taskVars>>
notTokVars ==
  <<userVars, gateVars, resVars, cntVars, pageVars, liveVars, errVars, sessVars, boxVars,
    taskVars>>
\* the live requests broadcast: push is theirs to write
notLiveVars ==
  <<userVars, gateVars, cntVars, pageVars, tokVars, errVars, docs, files, nextDoc, nextFile,
    http, sessVars, boxVars, taskVars>>
notErrVars ==
  <<userVars, gateVars, resVars, cntVars, pageVars, tokVars, liveVars, sessVars, boxVars,
    taskVars>>
notSessVars ==
  <<userVars, gateVars, resVars, cntVars, pageVars, tokVars, liveVars, errVars, boxVars,
    taskVars>>
notBoxVars ==
  <<userVars, gateVars, resVars, cntVars, pageVars, tokVars, liveVars, errVars, sessVars,
    taskVars>>
notTaskVars ==
  <<userVars, gateVars, resVars, cntVars, pageVars, tokVars, liveVars, errVars, sessVars,
    boxVars>>
\* concurrent UserService / AuthService calls write the user state and the tasks
notUserTaskVars ==
  <<gateVars, resVars, cntVars, pageVars, tokVars, liveVars, errVars, sessVars, boxVars>>
\* concurrent LiveService calls write the live setting, the broadcast and the tasks
notLiveTaskVars ==
  <<userVars, gateVars, cntVars, pageVars, tokVars, errVars, sessVars, boxVars, docs, files,
    nextDoc, nextFile, http>>

(***************************************************************************)
(* Error taxonomy: HTTP status carried by each typed error                 *)
(***************************************************************************)
StatusOf(kind) ==
  CASE kind = "ok" -> 200
    [] kind = "created" -> 201
    [] kind = "ValidationError" -> 400
    [] kind = "AuthenticationError" -> 401
    [] kind = "AuthorizationError" -> 403
    [] kind = "NotFoundError" -> 404
    [] kind = "ConflictError" -> 409
    [] kind = "ExternalServiceError" -> 502
    [] kind = "DatabaseError" -> 500
    [] OTHER -> 500

\* mailed: the token of the invitation mail the SMTP relay accepted during the call
Outcome(op, kind, uid, token, mailed) ==
  [op |-> op, result |-> kind, status |-> StatusOf(kind), uid |-> uid, token |-> token,
   mailed |-> mailed]

\* f with key k bound to v (k may be new)
Put(f, k, v) == [x \in DOMAIN f \cup {k} |-> IF x = k THEN v ELSE f[x]]
\* mutant of Drop: the delete call removes nothing
DropNothing(f, k) == f

\* f without key k
Drop(f, k) == [x \in DOMAIN f \ {k} |-> f[x]]

(***************************************************************************)
(* Identity provider and document-store queries                            *)
(***************************************************************************)
\* mutant of HasIdentity: the existence check never finds the identity
HasIdentityNever(email) == FALSE

\* auth.getUserByEmail(email) resolves (otherwise: auth/user-not-found)
HasIdentity(email) == \E u \in DOMAIN identities : identities[u].email = email

\* mutant of ResetLookup: the needsPasswordReset filter is missing
ResetLookupAnyFlag(token) == {u \in DOMAIN users : users[u].inviteToken = token}

\* users.where('inviteToken','==',token).where('needsPasswordReset','==',true)
ResetLookup(token) ==
  {u \in DOMAIN users : users[u].inviteToken = token /\ users[u].needsPasswordReset}

(***************************************************************************)
(* UserService                                                             *)
(***************************************************************************)
\* mutant of InvitedProfile: the invitation token is not stored
InvitedProfileNoToken(email, role, inviteToken, invitedBy) ==
  [email |-> email, role |-> role, needsPasswordReset |-> TRUE,
   inviteToken |-> NullToken, invitedBy |-> invitedBy]

\* the document written by inviteUser: doc(uid).set({...})
InvitedProfile(email, role, inviteToken, invitedBy) ==
  [email |-> email, role |-> role, needsPasswordReset |-> TRUE,
   inviteToken |-> inviteToken, invitedBy |-> invitedBy]

\* inviteUser(data, invitedBy).  fail names the external call that rejects:
\* "create" auth.createUser, "set" the profile write, "mail" the SMTP relay.
InviteUser(email, role, fail) ==
  IF HasIdentity(email)
  THEN /\ last' = Outcome("invite", "ConflictError", NoUid, NullToken, NullToken)
       /\ UNCHANGED <<identities, users, nextUid, nextToken, resetCount, superseded>>
  ELSE IF fail = "create"
  THEN /\ last' = Outcome("invite", "DatabaseError", NoUid, NullToken, NullToken)
       /\ UNCHANGED <<identities, users, nextUid, nextToken, resetCount, superseded>>
  ELSE /\ nextUid <= MaxUids
       /\ nextToken <= MaxTokens
       /\ identities' = Put(identities, nextUid, [email |-> email, password |-> TempPassword])
       /\ nextUid' = nextUid + 1
       /\ nextToken' = nextToken + 1
       /\ IF fail = "set"
          THEN /\ users' = users
               /\ last' = Outcome("invite", "DatabaseError", nextUid, nextToken, NullToken)
          ELSE /\ users' = Put(users, nextUid, InvitedProfile(email, role, nextToken, AdminUid))
               /\ last' = IF fail = "mail"
                          THEN Outcome("invite", "ExternalServiceError", nextUid, nextToken, NullToken)
                          ELSE Outcome("invite", "created", nextUid, nextToken, nextToken)
       /\ UNCHANGED <<resetCount, superseded>>

\* mutant of RoleUpdate: every role update also flips the invitation flag
RoleUpdateFlipsFlag(doc, role) ==
  [doc EXCEPT !.role = role, !.needsPasswordReset = ~@]

\* the write of updateUserRole: doc(id).update({role, updatedAt})
RoleUpdate(doc, role) == [doc EXCEPT !.role = role]

\* updateUserRole(id, role): doc(id).update fails when the document is absent
UpdateUserRole(id, role) ==
  IF id \in DOMAIN users
  THEN /\ users' = [users EXCEPT ![id] = RoleUpdate(@, role)]
       /\ last' = Outcome("updateRole", "ok", id, NullToken, NullToken)
       /\ UNCHANGED <<identities, nextUid, nextToken, resetCount, superseded>>
  ELSE /\ last' = Outcome("updateRole", "DatabaseError", id, NullToken, NullToken)
       /\ UNCHANGED <<identities, users, nextUid, nextToken, resetCount, superseded>>

\* mutant of ResendUpdate: the new token is mailed but not stored
ResendUpdateNotStored(doc, newInviteToken) == doc

\* the write of resendInvitation: doc(id).update({inviteToken: newInviteToken, ...})
ResendUpdate(doc, newInviteToken) == [doc EXCEPT !.inviteToken = newInviteToken]

\* resendInvitation(id); mailFails: the SMTP relay rejects the message
ResendInvitation(id, mailFails) ==
  IF id \notin DOMAIN users
  THEN /\ last' = Outcome("resend", "NotFoundError", id, NullToken, NullToken)
       /\ UNCHANGED <<identities, users, nextUid, nextToken, resetCount, superseded>>
  ELSE /\ nextToken <= MaxTokens
       /\ users' = [users EXCEPT ![id] = ResendUpdate(@, nextToken)]
       /\ nextToken' = nextToken + 1
       /\ superseded' = IF users[id].inviteToken = NullToken THEN superseded
                        ELSE superseded \cup {users[id].inviteToken}
       /\ last' = IF mailFails
                  THEN Outcome("resend", "ExternalServiceError", id, nextToken, NullToken)
                  ELSE Outcome("resend", "ok", id, nextToken, nextToken)
       /\ UNCHANGED <<identities, nextUid, resetCount>>

\* deleteUser(id).  fail names the external call that rejects: "auth" auth.deleteUser
\* (which also rejects an unknown uid), "db" the profile delete that follows it.
DeleteUser(id, fail) ==
  IF fail = "auth" \/ id \notin DOMAIN identities
  THEN /\ last' = Outcome("delete", "DatabaseError", id, NullToken, NullToken)
       /\ UNCHANGED <<identities, users, nextUid, nextToken, resetCount, superseded>>
  ELSE /\ identities' = Drop(identities, id)
       /\ IF fail = "db"
          THEN /\ users' = users
               /\ last' = Outcome("delete", "DatabaseError", id, NullToken, NullToken)
          ELSE /\ users' = Drop(users, id)
               /\ last' = Outcome("delete", "ok", id, NullToken, NullToken)
       /\ UNCHANGED <<nextUid, nextToken, resetCount, superseded>>

(***************************************************************************)
(* POST /api/admin/users/invite as routed (routes/user.routes.js): the      *)
(* handler works on the identity provider and the store itself and answers *)
(* on res without the typed errors                                         *)
(***************************************************************************)
ExistsMessage == "User with this email already exists"

\* what the handler writes to res; error: the error text of the body, "" on success
RouteReply(status, error, uid, token, mailed) ==
  [op |-> "inviteRoute", result |-> error, status |-> status, uid |-> uid,
   token |-> token, mailed |-> mailed]

\* mutant of InviteExistsReply: answered with the status of the typed ConflictError
InviteExistsReplyTyped == RouteReply(StatusOf("ConflictError"), ExistsMessage, NoUid, NullToken, NullToken)

\* res.status(400).json({ error: 'User with this email already exists' })
InviteExistsReply == RouteReply(400, ExistsMessage, NoUid, NullToken, NullToken)

\* the catch of the handler: res.status(500).json({ error: 'Failed to invite user' })
InviteFailedReply(uid, token) == RouteReply(500, "Failed to invite user", uid, token, NullToken)

\* mutant of RoleAccepted: the role is not validated
RoleAcceptedAny(role) == TRUE

\* body('role').isIn(['pasteur', 'media'])
RoleAccepted(role) == role \in InviteRoles

\* the handler of POST /invite behind verifyAdminToken.  fail as in InviteUser.
InviteRoute(email, role, fail) ==
  IF ~RoleAccepted(role)
  THEN /\ last' = RouteReply(400, "errors", NoUid, NullToken, NullToken)
       /\ UNCHANGED <<identities, users, nextUid, nextToken, resetCount, superseded>>
  ELSE IF HasIdentity(email)
  THEN /\ last' = InviteExistsReply
       /\ UNCHANGED <<identities, users, nextUid, nextToken, resetCount, superseded>>
  ELSE IF fail = "create"
  THEN /\ last' = InviteFailedReply(NoUid, NullToken)
       /\ UNCHANGED <<identities, users, nextUid, nextToken, resetCount, superseded>>
  ELSE /\ nextUid <= MaxUids
       /\ nextToken <= MaxTokens
       /\ identities' = Put(identities, nextUid, [email |-> email, password |-> TempPassword])
       /\ nextUid' = nextUid + 1
       /\ nextToken' = nextToken + 1
       /\ IF fail = "set"
          THEN /\ users' = users
               /\ last' = InviteFailedReply(nextUid, nextToken)
          ELSE /\ users' = Put(users, nextUid, InvitedProfile(email, role, nextToken, AdminUid))
               /\ last' = IF fail = "mail"
                          THEN InviteFailedReply(nextUid, nextToken)
                          ELSE RouteReply(201, "", nextUid, nextToken, nextToken)
       /\ UNCHANGED <<resetCount, superseded>>

\* UserController.invite behind userValidators.invite: a body the validators
\* reject throws ValidationError before the service is called
UserControllerInvite(email, role, fail) ==
  IF ~RoleAccepted(role)
  THEN /\ last' = Outcome("invite", "ValidationError", NoUid, NullToken, NullToken)
       /\ UNCHANGED <<identities, users, nextUid, nextToken, resetCount, superseded>>
  ELSE InviteUser(email, role, fail)

(***************************************************************************)
(* AuthService                                                             *)
(***************************************************************************)
\* mutant of ResetUpdate: the token and the flag are left in place
ResetUpdateKeepsInvite(doc) == doc

\* the write that ends resetPassword: doc(userId).update({needsPasswordReset: false,
\* inviteToken: null, ...})
ResetUpdate(doc) == [doc EXCEPT !.needsPasswordReset = FALSE, !.inviteToken = NullToken]

\* resetPassword(req) with req.body = {token, newPassword}
ResetPassword(token, newPassword) ==
  IF ResetLookup(token) = {}
  THEN /\ last' = Outcome("reset", "NotFoundError", NoUid, token, NullToken)
       /\ UNCHANGED <<identities, users, nextUid, nextToken, resetCount, superseded>>
  ELSE \E userId \in ResetLookup(token) :
         IF userId \notin DOMAIN identities
         THEN \* auth.updateUser rejects: wrapped as DatabaseError, profile untouched
              /\ last' = Outcome("reset", "DatabaseError", userId, token, NullToken)
              /\ UNCHANGED <<identities, users, nextUid, nextToken, resetCount, superseded>>
         ELSE /\ identities' = [identities EXCEPT ![userId].password = newPassword]
              /\ users' = [users EXCEPT ![userId] = ResetUpdate(@)]
              /\ resetCount' = [resetCount EXCEPT ![token] = IF @ < 2 THEN @ + 1 ELSE @]
              /\ last' = Outcome("reset", "ok", userId, token, NullToken)
              /\ UNCHANGED <<nextUid, nextToken, superseded>>

\* a reply that is not derived from a typed error
AuthReply(op, result, status, uid, token) ==
  [op |-> op, result |-> result, status |-> status, uid |-> uid, token |-> token,
   mailed |-> NullToken]

\* AuthService.login (part_016) and the inline POST /login of routes/auth.routes.js
LoginImpls == {"service", "inline"}

\* signInWithPassword of the identity provider: the localId, or the error code
SignIn(email, password) ==
  IF ~HasIdentity(email) THEN [code |-> "EMAIL_NOT_FOUND", localId |-> NoUid]
  ELSE LET uid == CHOOSE u \in DOMAIN identities : identities[u].email = email
       IN IF identities[uid].password = password
          THEN [code |-> "OK", localId |-> uid]
          ELSE [code |-> "INVALID_PASSWORD", localId |-> NoUid]

\* the catch of AuthService.login: the three provider codes and every other error,
\* the NotFoundError thrown inside the try block included, leave as
\* AuthenticationError
LoginCatch(error) == "AuthenticationError"

\* login with body {email, password}
Login(impl, email, password) ==
  LET signedIn == SignIn(email, password)
      op == IF impl = "service" THEN "login" ELSE "loginRoute"
  IN /\ last' =
          IF signedIn.code # "OK"
          THEN IF impl = "service"
               THEN Outcome(op, LoginCatch(signedIn.code), NoUid, NullToken, NullToken)
               ELSE AuthReply(op, "errors", 401, NoUid, NullToken)
          ELSE IF signedIn.localId \notin DOMAIN users
          THEN IF impl = "service"
               THEN Outcome(op, LoginCatch("NotFoundError"), signedIn.localId, NullToken,
                            NullToken)
               ELSE AuthReply(op, "errors", 404, signedIn.localId, NullToken)
          ELSE Outcome(op, "ok", signedIn.localId, NullToken, NullToken)
     /\ UNCHANGED <<identities, users, nextUid, nextToken, resetCount, superseded>>

\* users.where('inviteToken', '==', token).limit(1) of verifyToken
VerifyLookup(token) == {u \in DOMAIN users : users[u].inviteToken = token}

\* verifyToken(req) with req.body = {token}: {valid: true, user} or {valid: false}
VerifyToken(token) ==
  /\ last' = IF VerifyLookup(token) = {}
             THEN AuthReply("verifyToken", "invalid", 200, NoUid, token)
             ELSE AuthReply("verifyToken", "valid", 200,
                            CHOOSE u \in VerifyLookup(token) : TRUE, token)
  /\ UNCHANGED <<identities, users, nextUid, nextToken, resetCount, superseded>>

(***************************************************************************)
(* Role gates: middleware/auth.js (asyncHandler based) and                 *)
(* middleware/auth.middleware.js (legacy, answers on res itself)           *)
(***************************************************************************)
Gates == {"admin", "moderator"}
Impls == {"asyncHandler", "legacy"}
\* Authorization header: absent/malformed, a bearer token verifyIdToken rejects,
\* or a bearer token that verifies for uid
HeaderKinds == {"missing", "invalid", "valid"}
NoUser == "unset"
NoErr == "none"
NoReq == [gate |-> "admin", impl |-> "legacy", kind |-> "missing", uid |-> NoUid, user |-> NoUser]

IdleGate ==
  /\ serverUp = TRUE
  /\ req = NoReq
  /\ pc = "idle"
  /\ pendingErr = NoErr
  /\ nextCalls = 0
  /\ responses = <<>>
  /\ errorHandlerCalls = 0
  /\ unhandled = 0

\* no bearer token is followed
IdleSessions == issuedRole = <<>>

\* mutant of LoadedRole: the role is the one the caller had when the token was issued
LoadedRoleAtIssue(uid) == IF uid \in DOMAIN issuedRole THEN issuedRole[uid] ELSE users[uid].role

\* req.user.role: ...userDoc.data() of the users document read for this request
LoadedRole(uid) == users[uid].role

\* mutant of AllowedRoles: the admin gate accepts the moderator role set
AllowedRolesLax(gate) == {"admin", "pasteur", "media"}

\* the roles a gate's callback lets through
AllowedRoles(gate) == IF gate = "admin" THEN {"admin"} ELSE {"admin", "pasteur", "media"}

\* a step of the gate fails with err.  asyncHandler: the inner promise rejects and
\* .catch(next) will run the gate's callback with it.  legacy: the response is
\* written at once (the catch block of verifyFirebaseToken answers 401).
GateFail(err, legacyStatus) ==
  IF req.impl = "asyncHandler"
  THEN /\ pendingErr' = err
       /\ pc' = "catch"
       /\ UNCHANGED <<responses>>
  ELSE /\ responses' = Append(responses, legacyStatus)
       /\ pc' = "done"
       /\ UNCHANGED <<pendingErr>>

\* a request reaches verifyAdminToken / verifyModeratorToken: header check
GateStart(gate, impl, kind, uid) ==
  /\ serverUp
  /\ pc = "idle"
  /\ req' = [gate |-> gate, impl |-> impl, kind |-> kind, uid |-> uid, user |-> NoUser]
  /\ nextCalls' = 0
  /\ errorHandlerCalls' = 0
  /\ IF kind = "missing"
     THEN IF impl = "asyncHandler"
          THEN pendingErr' = "AuthenticationError" /\ pc' = "catch" /\ responses' = <<>>
          ELSE pendingErr' = NoErr /\ pc' = "done" /\ responses' = <<401>>
     ELSE pendingErr' = NoErr /\ pc' = "verify" /\ responses' = <<>>
  /\ UNCHANGED <<serverUp, unhandled>>
  /\ UNCHANGED notGateVars

\* await auth.verifyIdToken(token) settles
GateVerify ==
  /\ pc = "verify"
  /\ IF req.kind = "invalid"
     THEN GateFail("FirebaseAuthError", 401)
     ELSE pc' = "load" /\ UNCHANGED <<pendingErr, responses>>
  /\ UNCHANGED <<serverUp, req, nextCalls, errorHandlerCalls, unhandled>>
  /\ UNCHANGED notGateVars

\* await users.doc(uid).get() settles; with a profile, req.user is set and the
\* gate's callback runs inside verifyFirebaseToken
GateLoad ==
  /\ pc = "load"
  /\ IF req.uid \notin DOMAIN users
     THEN /\ GateFail("NotFoundError", 404)
          /\ UNCHANGED <<req, nextCalls>>
     ELSE /\ req' = [req EXCEPT !.user = LoadedRole(req.uid)]
          /\ IF LoadedRole(req.uid) \in AllowedRoles(req.gate)
             THEN /\ nextCalls' = nextCalls + 1
                  /\ pc' = "done"
                  /\ UNCHANGED <<pendingErr, responses>>
             ELSE /\ GateFail("AuthorizationError", 403)
                  /\ UNCHANGED nextCalls
  /\ UNCHANGED <<serverUp, errorHandlerCalls, unhandled>>
  /\ UNCHANGED notGateVars

\* .catch(next) of the inner asyncHandler: next is the gate's callback, which reads
\* req.user.role; what it throws rejects a promise nobody listens to, and the
\* unhandledRejection hook closes the server
GateCatch ==
  /\ pc = "catch"
  /\ IF req.user # NoUser /\ req.user \in AllowedRoles(req.gate)
     THEN /\ nextCalls' = nextCalls + 1
          /\ UNCHANGED <<unhandled, serverUp>>
     ELSE /\ unhandled' = unhandled + 1
          /\ serverUp' = FALSE
          /\ UNCHANGED nextCalls
  /\ pc' = "done"
  /\ pendingErr' = NoErr
  /\ UNCHANGED <<req, responses, errorHandlerCalls>>
  /\ UNCHANGED notGateVars

\* the request is over; the next one may arrive
GateEnd ==
  /\ pc = "done"
  /\ serverUp
  /\ pc' = "idle"
  /\ req' = NoReq
  /\ nextCalls' = 0
  /\ responses' = <<>>
  /\ errorHandlerCalls' = 0
  /\ UNCHANGED <<serverUp, pendingErr, unhandled>>
  /\ UNCHANGED notGateVars

(***************************************************************************)
(* Content resources: AudioService (services/audio.js) behind the          *)
(* asyncHandler AudioController, SermonService and PostService behind      *)
(* their asyncHandler controllers, EventService behind EventController     *)
(***************************************************************************)
ResTypes == {"audio", "sermon", "event", "post"}
NoFile == 0
DocIds == 1..MaxDocs

NoHttp ==
  [op |-> "none", type |-> "audio", id |-> 0, uid |-> NoUid, role |-> "user",
   status |-> 0, success |-> FALSE, viaErrorHandler |-> FALSE]

\* messaging.send calls of a request to topic all_users and whether FCM took them
NoPush == [sends |-> 0, delivered |-> FALSE, type |-> "none"]
Push(type, fails) == [sends |-> 1, delivered |-> ~fails, type |-> type]

IdleResources ==
  /\ docs = <<>>
  /\ files = {}
  /\ nextDoc = 1
  /\ nextFile = 1
  /\ http = NoHttp
  /\ push = NoPush

\* what a service call hands to its controller
Success == [kind |-> "success", status |-> 200, err |-> NoErr]
Returned(status) == [kind |-> "failure", status |-> status, err |-> NoErr]
Thrown(err) == [kind |-> "thrown", status |-> StatusOf(err), err |-> err]

\* collection(type).doc(id).get() finds a document
DocExists(type, id) == id \in DOMAIN docs /\ docs[id].type = type

\* req.user as the moderator gate leaves it
ActingUser(uid) == [uid |-> uid, role |-> users[uid].role]

\* AudioService.updateAudio / deleteAudio up to the write: failures are returned
AudioCheck(id, user) ==
  IF ~DocExists("audio", id) THEN Returned(404)
  ELSE IF docs[id].owner # user.uid /\ user.role # "admin" THEN Returned(403)
  ELSE Success

\* SermonService.updateSermon / deleteSermon up to the write: failures are thrown
SermonCheck(id, user) ==
  IF ~DocExists("sermon", id) THEN Thrown("NotFoundError")
  ELSE IF docs[id].owner # user.uid /\ user.role # "admin" THEN Thrown("AuthorizationError")
  ELSE Success

\* mutant of PostCheck: the admin override is missing
PostCheckOwnerOnly(id, user) ==
  IF ~DocExists("post", id) THEN Thrown("NotFoundError")
  ELSE IF docs[id].owner # user.uid THEN Thrown("AuthorizationError")
  ELSE Success

\* PostService.updatePost / deletePost up to the write: failures are thrown
PostCheck(id, user) ==
  IF ~DocExists("post", id) THEN Thrown("NotFoundError")
  ELSE IF docs[id].owner # user.uid /\ user.role # "admin" THEN Thrown("AuthorizationError")
  ELSE Success

\* EventService.updateEvent / deleteEvent up to the write: existence only
EventCheck(id) ==
  IF ~DocExists("event", id) THEN Thrown("NotFoundError") ELSE Success

MutationCheck(type, id, user) ==
  CASE type = "audio" -> AudioCheck(id, user)
    [] type = "sermon" -> SermonCheck(id, user)
    [] type = "post" -> PostCheck(id, user)
    [] OTHER -> EventCheck(id)

\* errorHandler: statusCode of the error, 500 without one
ErrorHandlerStatus(err) == StatusOf(err)

\* asyncHandler controllers (audio, sermon, post): res.status(okStatus).json(result)
\* for whatever the service returns, errorHandler for what it throws
AsyncControllerStatus(result, okStatus) ==
  IF result.kind = "thrown" THEN ErrorHandlerStatus(result.err) ELSE okStatus

\* EventController: try/catch answering 500, result.status || 400 for a returned failure
EventControllerStatus(result, okStatus) ==
  IF result.kind = "thrown" THEN 500
  ELSE IF result.kind = "failure" THEN result.status
  ELSE okStatus

Exchange(op, type, id, user, result, okStatus) ==
  [op |-> op, type |-> type, id |-> id, uid |-> user.uid, role |-> user.role,
   status |-> IF type = "event" THEN EventControllerStatus(result, okStatus)
              ELSE AsyncControllerStatus(result, okStatus),
   success |-> result.kind = "success",
   viaErrorHandler |-> type # "event" /\ result.kind = "thrown"]

\* the route's verifyModeratorToken let the caller through
IsModerator(uid) == uid \in DOMAIN users /\ users[uid].role \in ModeratorRoles

\* error the broadcast throws into the create call: the sender of services/notification.js
\* used by AudioService throws a plain Error, NotificationService.sendToTopic an
\* ExternalServiceError
BroadcastError(type) == IF type = "audio" THEN "Error" ELSE "ExternalServiceError"

\* mutant of CreateResult: events log the rejected broadcast and report success
CreateResultEventSwallows(type, notifyFails) ==
  IF notifyFails /\ type # "event" THEN Thrown(BroadcastError(type)) ELSE Success

\* what the create call hands to its controller: the awaited broadcast is inside
\* the try of every create, whose catch rethrows
CreateResult(type, notifyFails) ==
  IF notifyFails THEN Thrown(BroadcastError(type)) ELSE Success

\* mutant of StoredAfterCreate: the document is removed again when the broadcast fails
StoredAfterCreateRollsBack(stored, id, doc, notifyFails) ==
  IF notifyFails THEN stored ELSE Put(stored, id, doc)

\* the collection after a create call: collection(...).add(data) precedes the
\* broadcast, and no path deletes the document afterwards
StoredAfterCreate(stored, id, doc, notifyFails) == Put(stored, id, doc)

\* createAudio / createSermon / createEvent / createPost.  second: the optional or
\* second file is part of the request (thumbnail, event image); sermons always carry
\* image and pdf, posts one media file.  notifyFails: FCM rejects the broadcast
\* that follows the document write.
CreateDocument(type, uid, second, notifyFails) ==
  LET user == ActingUser(uid)
      hasA == type # "event" \/ second
      hasB == type = "sermon" \/ (type = "audio" /\ second)
      urlA == IF hasA THEN nextFile ELSE NoFile
      urlB == IF hasB THEN (IF hasA THEN nextFile + 1 ELSE nextFile) ELSE NoFile
      used == (IF hasA THEN 1 ELSE 0) + (IF hasB THEN 1 ELSE 0)
  IN /\ IsModerator(uid)
     /\ files' = files \cup ({urlA, urlB} \ {NoFile})
     /\ nextFile' = nextFile + used
     /\ docs' = StoredAfterCreate(docs, nextDoc,
                                  [type |-> type,
                                   owner |-> IF type = "event" THEN NoUid ELSE uid,
                                   updated |-> FALSE, urlA |-> urlA, urlB |-> urlB],
                                  notifyFails)
     /\ nextDoc' = nextDoc + 1
     /\ push' = Push(type, notifyFails)
     /\ http' = Exchange("create", type, nextDoc, user, CreateResult(type, notifyFails), 201)

\* number of files a create request uploads
FilesUsed(type, second) ==
  (IF type # "event" \/ second THEN 1 ELSE 0)
    + (IF type = "sermon" \/ (type = "audio" /\ second) THEN 1 ELSE 0)

\* a create call while the run may still add a document and its files
CreateResource(type, uid, second, notifyFails) ==
  /\ nextDoc <= MaxDocs
  /\ nextFile + FilesUsed(type, second) - 1 <= MaxFiles
  /\ CreateDocument(type, uid, second, notifyFails)

\* updateAudio / updateSermon / updateEvent / updatePost (the merged fields and
\* updatedAt are the updated mark); withFile: an event image comes with the request
UpdateResource(type, id, uid, withFile) ==
  LET user == ActingUser(uid)
      result == MutationCheck(type, id, user)
      upload == type = "event" /\ withFile
  IN /\ IsModerator(uid)
     /\ http' = Exchange("update", type, id, user, result, 200)
     /\ push' = NoPush
     /\ IF result.kind = "success"
        THEN /\ upload => nextFile <= MaxFiles
             /\ docs' = [docs EXCEPT ![id].updated = TRUE,
                                     ![id].urlA = IF upload THEN nextFile ELSE @]
             /\ files' = IF upload THEN files \cup {nextFile} ELSE files
             /\ nextFile' = IF upload THEN nextFile + 1 ELSE nextFile
             /\ UNCHANGED nextDoc
        ELSE UNCHANGED <<docs, files, nextDoc, nextFile>>

\* deleteAudio / deleteSermon / deleteEvent / deletePost; only deleteSermon removes
\* the stored objects before the document
DeleteResource(type, id, uid) ==
  LET user == ActingUser(uid)
      result == MutationCheck(type, id, user)
  IN /\ IsModerator(uid)
     /\ http' = Exchange("delete", type, id, user, result, 200)
     /\ push' = NoPush
     /\ IF result.kind = "success"
        THEN /\ docs' = Drop(docs, id)
             /\ files' = IF type = "sermon" THEN files \ {docs[id].urlA, docs[id].urlB}
                         ELSE files
             /\ UNCHANGED <<nextDoc, nextFile>>
        ELSE UNCHANGED <<docs, files, nextDoc, nextFile>>

(***************************************************************************)
(* Counters: AudioService.incrementPlays / incrementDownloads,             *)
(* SermonService.incrementDownloads, PostService.likePost and the view     *)
(* count of PostService.getPostById, called concurrently on one document   *)
(* of each collection                                                      *)
(***************************************************************************)
Callers == 1..MaxCallers
IncrementOps ==
  {"incrementPlays", "incrementDownloads", "sermonIncrementDownloads", "likePost",
   "getPostById"}
CounterFields == {"audio.plays", "audio.downloads", "sermon.downloads", "post.likes",
                  "post.views"}
NoSnapshot == -1
NoCall == [op |-> "none", pc |-> "idle", snapshot |-> NoSnapshot]

\* the field of the update each operation sends
FieldOf(op) ==
  CASE op = "incrementPlays" -> "audio.plays"
    [] op = "incrementDownloads" -> "audio.downloads"
    [] op = "sermonIncrementDownloads" -> "sermon.downloads"
    [] op = "likePost" -> "post.likes"
    [] OTHER -> "post.views"

IdleCounters ==
  /\ counters = [f \in CounterFields |-> 0]
  /\ start = counters
  /\ calls = [c \in Callers |-> NoCall]

\* a caller enters one of the operations; getPostById first awaits the document
BeginCall(c, op) ==
  /\ calls[c].pc = "idle"
  /\ calls' = [calls EXCEPT ![c] = [op |-> op,
                                    pc |-> IF op = "getPostById" THEN "get" ELSE "update",
                                    snapshot |-> NoSnapshot]]
  /\ UNCHANGED <<counters, start>>

\* getPostById: doc = await posts.doc(id).get(); the document exists
GetDoc(c) ==
  /\ calls[c].pc = "get"
  /\ calls' = [calls EXCEPT ![c].pc = "update", ![c].snapshot = counters["post.views"]]
  /\ UNCHANGED <<counters, start>>

\* mutant of IncrementedValue: getPostById writes the views it has read plus one
IncrementedFromSnapshot(c, field) ==
  IF calls[c].op = "getPostById" THEN calls[c].snapshot + 1 ELSE counters[field] + 1

\* FieldValue.increment(1): the store adds one to the value it holds
IncrementedValue(c, field) == counters[field] + 1

\* await doc(id).update({ field: FieldValue.increment(1) }), then the call returns
UpdateDoc(c) ==
  LET field == FieldOf(calls[c].op)
  IN /\ calls[c].pc = "update"
     /\ counters' = [counters EXCEPT ![field] = IncrementedValue(c, field)]
     /\ calls' = [calls EXCEPT ![c].pc = "done"]
     /\ UNCHANGED start

(***************************************************************************)
(* Paginated listings: UserService.getAllUsers, PostService.getAllPosts    *)
(***************************************************************************)
CollNames == {"users", "posts"}
Limits == {1, 3, 20}
\* role (users) or category (posts) of a document; NoKey: the query has no filter
Keys == {"k1", "k2"}
NoKey == ""
NoTotal == -1
NoListing ==
  [op |-> "none", key |-> NoKey, page |-> 0, limit |-> 0, items |-> <<>>,
   total |-> NoTotal, pages |-> NoTotal]

IdlePages ==
  /\ collName = "users"
  /\ collection = <<>>
  /\ listing = NoListing

\* query.where(field, '==', key) when the filter is given
Where(key) ==
  {d \in DOMAIN collection : key = NoKey \/ collection[d].key = key}

\* d comes before e in orderBy('createdAt', 'desc'); equal stamps by document id
Before(d, e) ==
  \/ collection[d].createdAt > collection[e].createdAt
  \/ collection[d].createdAt = collection[e].createdAt /\ d > e

RECURSIVE Insert(_, _)
Insert(d, seq) ==
  IF seq = <<>> THEN <<d>>
  ELSE IF Before(d, Head(seq)) THEN <<d>> \o seq
  ELSE <<Head(seq)>> \o Insert(d, Tail(seq))

RECURSIVE OrderBy(_)
\* the matching documents in query order
OrderBy(S) ==
  IF S = {} THEN <<>>
  ELSE LET d == CHOOSE x \in S : TRUE IN Insert(d, OrderBy(S \ {d}))

\* .offset(k): skip the first k results
Offset(seq, k) == IF k >= Len(seq) THEN <<>> ELSE SubSeq(seq, k + 1, Len(seq))

\* .limit(n): at most the first n results
Limit(seq, n) == IF n >= Len(seq) THEN seq ELSE SubSeq(seq, 1, n)

\* mutant of OffsetOf: the page number is not reduced by one
OffsetOfPage(page, limit) == page * limit

\* (page - 1) * limit
OffsetOf(page, limit) == (page - 1) * limit

\* Math.ceil(total / limit)
Pages(total, limit) == (total + limit - 1) \div limit

\* query.orderBy('createdAt', 'desc').limit(limit).offset((page - 1) * limit).get()
RunQuery(key, limit, page) == Limit(Offset(OrderBy(Where(key)), OffsetOf(page, limit)), limit)

GetAllUsers(role, limit, page) ==
  /\ collName = "users"
  /\ listing' = [op |-> "getAllUsers", key |-> role, page |-> page, limit |-> limit,
                 items |-> RunQuery(role, limit, page),
                 total |-> Cardinality(Where(role)),
                 pages |-> Pages(Cardinality(Where(role)), limit)]
  /\ UNCHANGED <<collName, collection>>

GetAllPosts(limit, page, category) ==
  /\ collName = "posts"
  /\ listing' = [op |-> "getAllPosts", key |-> category, page |-> page, limit |-> limit,
                 items |-> RunQuery(category, limit, page),
                 total |-> NoTotal, pages |-> NoTotal]
  /\ UNCHANGED <<collName, collection>>

(***************************************************************************)
(* POST /api/auth/generate-custom-token: the route that hands the request  *)
(* to AuthController / AuthService, and the route of routes/auth.routes.js *)
(* that handles it inline; both behind verifyFirebaseToken                 *)
(***************************************************************************)
TokenImpls == {"controller", "inline"}
NoTokenReply ==
  [impl |-> "inline", caller |-> NoUid, role |-> "user", uid |-> NoUid, status |-> 0,
   customToken |-> FALSE]

IdleTokens ==
  /\ issuedTo = {}
  /\ tokenReply = NoTokenReply

\* routes/auth.routes.js: if (req.user.role !== 'admin') return res.status(403)
InlineRoleCheck(role) == role = "admin"

\* status of the answer.  uid = NoUid: the body carries no uid; fail:
\* auth.createCustomToken rejects.  The controller route lets AuthService throw
\* ValidationError / DatabaseError to errorHandler and checks no role.
CustomTokenStatus(impl, role, uid, fail) ==
  IF impl = "inline" /\ ~InlineRoleCheck(role) THEN 403
  ELSE IF uid = NoUid THEN (IF impl = "inline" THEN 400 ELSE StatusOf("ValidationError"))
  ELSE IF fail THEN (IF impl = "inline" THEN 500 ELSE StatusOf("DatabaseError"))
  ELSE 200

\* a request by an authenticated caller: verifyFirebaseToken has set req.user
GenerateCustomToken(impl, caller, uid, fail) ==
  LET role == users[caller].role
      status == CustomTokenStatus(impl, role, uid, fail)
  IN /\ caller \in DOMAIN users
     /\ tokenReply' = [impl |-> impl, caller |-> caller, role |-> role, uid |-> uid,
                       status |-> status, customToken |-> status = 200]
     /\ issuedTo' = IF status = 200 THEN issuedTo \cup {caller} ELSE issuedTo

(***************************************************************************)
(* LiveService behind PUT /api/admin/live/status and POST .../notify       *)
(***************************************************************************)
\* isLive as it arrives in req.body: JSON booleans, numbers and strings (a form
\* post carries strings)
IsLiveValues ==
  {"bool:true", "bool:false", "num:1", "num:0", "str:true", "str:false", "str:1", "str:0",
   "str:yes"}

\* body('isLive').isBoolean(): the value, as a string, is one of true, false, 1, 0
IsBooleanAccepted(v) == v # "str:yes"

\* JavaScript truthiness, as in if (isLive): false and 0 are falsy, every
\* non-empty string is truthy
Truthy(v) == v \notin {"bool:false", "num:0"}

\* liveTitle of the body; Undefined: the body has none
Undefined == "undefined"
LiveTitles == {Undefined, "Culte", "Veillee"}

NoLiveSetting ==
  [exists |-> FALSE, isLive |-> "bool:false", liveTitle |-> Undefined, updatedBy |-> NoUid]
NoLiveReply == [op |-> "none", isLive |-> "bool:false", liveTitle |-> Undefined, status |-> 0]

IdleLive ==
  /\ liveSetting = NoLiveSetting
  /\ liveReply = NoLiveReply

\* updateLiveStatus(req.body, req.user) behind the validation of the controller;
\* notifyFails: FCM rejects the broadcast, which the service rethrows
UpdateLiveStatus(isLive, liveTitle, uid, notifyFails) ==
  IF ~IsBooleanAccepted(isLive)
  THEN /\ liveReply' = [op |-> "updateStatus", isLive |-> isLive, liveTitle |-> liveTitle,
                        status |-> 400]
       /\ push' = NoPush
       /\ UNCHANGED liveSetting
  ELSE /\ liveSetting' = [exists |-> TRUE, isLive |-> isLive,
                          liveTitle |-> IF liveTitle # Undefined THEN liveTitle
                                        ELSE liveSetting.liveTitle,
                          updatedBy |-> uid]
       /\ push' = IF Truthy(isLive) THEN Push("live", notifyFails) ELSE NoPush
       /\ liveReply' = [op |-> "updateStatus", isLive |-> isLive, liveTitle |-> liveTitle,
                        status |-> IF Truthy(isLive) /\ notifyFails THEN 500 ELSE 200]

\* sendLiveNotification(req.body): always one broadcast
SendLiveNotification(notifyFails) ==
  /\ push' = Push("live", notifyFails)
  /\ liveReply' = [op |-> "sendNotification", isLive |-> "bool:false",
                   liveTitle |-> Undefined, status |-> IF notifyFails THEN 500 ELSE 200]
  /\ UNCHANGED liveSetting

(***************************************************************************)
(* Error responses: an exception of an adapter (document store, identity   *)
(* provider, object storage) raised inside a service method, the catch of  *)
(* the method, and the global errorHandler that answers the request        *)
(***************************************************************************)
NodeEnvs == {"production", "development", "test"}
Adapters == {"database", "identity", "storage"}
\* message texts of the adapters' exceptions (host names, paths, provider codes)
RawTexts == {"text1", "text2", "text3"}
GenericMessage == <<"An unexpected error occurred">>
NoStatusCode == 0

\* service methods answered through asyncHandler and errorHandler
ServiceMethods ==
  {"inviteUser", "updateUserRole", "deleteUser", "generateCustomToken", "createPost",
   "createSermon", "createAudio"}

\* the adapters a method calls inside its try block
AdaptersOf(method) ==
  CASE method \in {"inviteUser", "deleteUser"} -> {"identity", "database"}
    [] method = "updateUserRole" -> {"database"}
    [] method = "generateCustomToken" -> {"identity"}
    [] OTHER -> {"database", "storage"}

\* the catch of the method: wrap unless operational, wrap always, or rethrow
CatchOf(method) ==
  CASE method \in {"inviteUser", "createPost", "createSermon"} -> "wrapUnlessOperational"
    [] method = "createAudio" -> "rethrow"
    [] OTHER -> "wrap"

PrefixOf(method) ==
  CASE method = "inviteUser" -> "Failed to invite user: "
    [] method = "updateUserRole" -> "Failed to update user role: "
    [] method = "deleteUser" -> "Failed to delete user: "
    [] method = "generateCustomToken" -> "Failed to generate custom token: "
    [] method = "createPost" -> "Failed to create post: "
    [] method = "createSermon" -> "Failed to create sermon: "
    [] OTHER -> ""

\* an exception object: message is the concatenation of its parts
PlainError(message) ==
  [isOperational |-> FALSE, statusCode |-> NoStatusCode, code |-> "none",
   message |-> message]
AppError(message, statusCode, code) ==
  [isOperational |-> TRUE, statusCode |-> statusCode, code |-> code, message |-> message]
DatabaseError(message) == AppError(message, 500, "DATABASE_ERROR")
ExternalServiceError(service, message) ==
  AppError(<<service, " service error: ", message>>, 502, "EXTERNAL_SERVICE_ERROR")
ConflictError(message) == AppError(<<message>>, 409, "CONFLICT_ERROR")

\* what the storage call of the method throws when the bucket rejects with raw:
\* StorageService.uploadFile for the injected services, uploadFileToStorage for
\* AudioService
StorageCatch(method, raw) ==
  IF method = "createAudio" THEN PlainError(<<"Failed to upload file">>)
  ELSE ExternalServiceError("Storage", "Failed to upload file")

\* what the method throws to its caller for an error caught by its catch
ServiceCatch(method, error) ==
  CASE CatchOf(method) = "rethrow" -> error
    [] CatchOf(method) = "wrapUnlessOperational" /\ error.isOperational -> error
    [] OTHER -> DatabaseError(<<PrefixOf(method)>> \o error.message)

\* formatErrorResponse: the error member of the body
FormatErrorResponse(error, env) ==
  IF error.isOperational
  THEN [message |-> error.message, code |-> error.code, statusCode |-> error.statusCode,
        stack |-> FALSE]
  ELSE IF env = "production"
  THEN [message |-> GenericMessage, code |-> "INTERNAL_SERVER_ERROR", statusCode |-> 500,
        stack |-> FALSE]
  ELSE [message |-> error.message,
        code |-> IF error.code = "none" THEN "INTERNAL_SERVER_ERROR" ELSE error.code,
        statusCode |-> IF error.statusCode = NoStatusCode THEN 500 ELSE error.statusCode,
        stack |-> TRUE]

\* errorHandler: res.status(err.statusCode || err.status || 500).json(response)
ErrorHandler(method, raised, adapter, text, error) ==
  [method |-> method, raised |-> raised, adapter |-> adapter, text |-> text,
   status |-> IF error.statusCode = NoStatusCode THEN 500 ELSE error.statusCode,
   body |-> FormatErrorResponse(error, nodeEnv)]

NoErrorReply ==
  [method |-> "none", raised |-> "none", adapter |-> "none", text |-> "none",
   status |-> 0,
   body |-> [message |-> <<>>, code |-> "none", statusCode |-> 0, stack |-> FALSE]]

IdleErrors ==
  /\ nodeEnv = "development"
  /\ errorReply = NoErrorReply

\* a request whose service method meets an adapter exception with message text
AdapterThrows(method, adapter, text) ==
  LET raw == PlainError(<<text>>)
      caught == IF adapter = "storage" THEN StorageCatch(method, raw) ELSE raw
  IN /\ adapter \in AdaptersOf(method)
     /\ errorReply' = ErrorHandler(method, "untyped", adapter, text,
                                   ServiceCatch(method, caught))
     /\ UNCHANGED nodeEnv

\* inviteUser for a registered email: the typed error thrown inside the try block
InviteConflictThrows ==
  /\ errorReply' = ErrorHandler("inviteUser", "typed", "none", "none",
                                ServiceCatch("inviteUser",
                                             ConflictError("User with this email already exists")))
  /\ UNCHANGED nodeEnv

(***************************************************************************)
(* Service container: initialize() registers the adapters and the services *)
(* one register call after the other; request handlers look services up    *)
(* with req.container.get                                                  *)
(***************************************************************************)
ContainerImpls == {"serviceContainer", "part_001"}

\* register calls of initialize(), in order
BaseNames ==
  <<"db", "auth", "storage", "messaging", "admin", "emailTransporter", "config">>

\* register calls of initializeBusinessServices(), in order
BusinessNames(impl) ==
  IF impl = "serviceContainer"
  THEN <<"storageService", "notificationService", "emailService", "statsService",
         "authService", "audioService", "sermonService", "eventService", "postService",
         "liveService", "userService">>
  ELSE <<"audioService", "userService", "sermonService", "eventService", "postService",
         "liveService", "statsService", "storageService", "notificationService",
         "emailService">>

RegisterOrder(impl) == BaseNames \o BusinessNames(impl)

\* names resolveDependencies() fetches with this.get
ResolvedNames ==
  {"storageService", "notificationService", "emailService", "audioService",
   "sermonService", "eventService", "postService", "liveService", "userService"}

\* names the middleware and the controllers look up with req.container.get
LookupNames ==
  {"auth", "db", "authService", "audioService", "sermonService", "eventService",
   "postService", "liveService", "userService", "statsService", "donationService"}

\* number of handlers that look the name up
SitesOf(name) ==
  CASE name \in {"auth", "db"} -> 2
    [] name \in {"authService", "postService", "userService", "donationService"} -> 6
    [] name \in {"audioService", "sermonService"} -> 7
    [] name = "eventService" -> 5
    [] name = "liveService" -> 3
    [] OTHER -> 4

NoLookup == [name |-> "none", site |-> 0, found |-> TRUE, status |-> 0]

\* the container as constructed: an empty map, not initialized
IdleContainer ==
  /\ containerImpl = "serviceContainer"
  /\ services = {}
  /\ bootPc = 1
  /\ initialized = FALSE
  /\ bootFailed = FALSE
  /\ lookup = NoLookup

\* appConfig.validate(), firebaseConfig.initialize() or emailConfig.initialize()
\* throws: initialize() rejects before the first register call
BootFails ==
  /\ bootPc = 1
  /\ ~bootFailed
  /\ bootFailed' = TRUE
  /\ UNCHANGED <<containerImpl, services, bootPc, initialized, lookup>>

\* the next this.register(name, service) of initialize()
Register ==
  /\ ~bootFailed
  /\ bootPc \in 1..Len(RegisterOrder(containerImpl))
  /\ services' = services \cup {RegisterOrder(containerImpl)[bootPc]}
  /\ bootPc' = bootPc + 1
  /\ UNCHANGED <<containerImpl, initialized, bootFailed, lookup>>

\* resolveDependencies() (serviceContainer.js only) and this.initialized = true;
\* a this.get of an unregistered name throws and initialize() rejects
FinishInitialize ==
  /\ ~bootFailed
  /\ ~initialized
  /\ bootPc = Len(RegisterOrder(containerImpl)) + 1
  /\ IF containerImpl = "serviceContainer" /\ ~(ResolvedNames \subseteq services)
     THEN bootFailed' = TRUE /\ UNCHANGED initialized
     ELSE initialized' = TRUE /\ UNCHANGED bootFailed
  /\ UNCHANGED <<containerImpl, services, bootPc, lookup>>

\* req.container.get(name) at one of the handlers that use the name; the Error
\* thrown for an unknown name reaches errorHandler without a statusCode
ContainerGet(name, site) ==
  /\ initialized
  /\ site \in 1..SitesOf(name)
  /\ lookup' = [name |-> name, site |-> site, found |-> name \in services,
                status |-> IF name \in services THEN 200 ELSE 500]
  /\ UNCHANGED <<containerImpl, services, bootPc, initialized, bootFailed>>

(***************************************************************************)
(* Concurrent service calls: a call runs up to its next await in one step;  *)
(* two callers share the identity provider and the document store          *)
(***************************************************************************)
Tasks == {1, 2}
NoTask == [op |-> "none", pc |-> "idle"]
\* no call has started: the document is the one of the store
NoBefore == [taken |-> FALSE, doc |-> NoLiveSetting]

IdleTasks ==
  /\ tasks = [c \in Tasks |-> NoTask]
  /\ before = NoBefore

\* the call of task c has returned or thrown
Finished(c, op) == tasks[c].op = op /\ tasks[c].pc = "done"

\* AuthService.resetPassword(req) is called: body {token, newPassword}
ResetCall(c, token, newPassword) ==
  /\ tasks[c].pc = "idle"
  /\ tasks' = [tasks EXCEPT ![c] =
                 [op |-> "reset", pc |-> "lookup", token |-> token,
                  password |-> newPassword, userId |-> NoUid, rewrote |-> FALSE,
                  result |-> "none"]]
  /\ UNCHANGED <<userVars, before>>

\* await users.where(inviteToken).where(needsPasswordReset).limit(1).get() settles
ResetFind(c) ==
  /\ tasks[c].op = "reset"
  /\ tasks[c].pc = "lookup"
  /\ IF ResetLookup(tasks[c].token) = {}
     THEN /\ tasks' = [tasks EXCEPT ![c].pc = "done", ![c].result = "NotFoundError"]
          /\ last' = Outcome("reset", "NotFoundError", NoUid, tasks[c].token, NullToken)
     ELSE /\ \E userId \in ResetLookup(tasks[c].token) :
               tasks' = [tasks EXCEPT ![c].pc = "auth", ![c].userId = userId]
          /\ UNCHANGED last
  /\ UNCHANGED <<identities, users, nextUid, nextToken, resetCount, superseded, before>>

\* await auth.updateUser(userId, {password}) settles
ResetCredential(c) ==
  /\ tasks[c].op = "reset"
  /\ tasks[c].pc = "auth"
  /\ IF tasks[c].userId \notin DOMAIN identities
     THEN /\ tasks' = [tasks EXCEPT ![c].pc = "done", ![c].result = "DatabaseError"]
          /\ last' = Outcome("reset", "DatabaseError", tasks[c].userId, tasks[c].token,
                             NullToken)
          /\ UNCHANGED identities
     ELSE /\ identities' = [identities EXCEPT ![tasks[c].userId].password = tasks[c].password]
          /\ tasks' = [tasks EXCEPT ![c].pc = "profile", ![c].rewrote = TRUE]
          /\ UNCHANGED last
  /\ UNCHANGED <<users, nextUid, nextToken, resetCount, superseded, before>>

\* await users.doc(userId).update({needsPasswordReset: false, inviteToken: null})
\* settles and the call returns
ResetProfile(c) ==
  /\ tasks[c].op = "reset"
  /\ tasks[c].pc = "profile"
  /\ IF tasks[c].userId \notin DOMAIN users
     THEN /\ tasks' = [tasks EXCEPT ![c].pc = "done", ![c].result = "DatabaseError"]
          /\ last' = Outcome("reset", "DatabaseError", tasks[c].userId, tasks[c].token,
                             NullToken)
          /\ UNCHANGED <<users, resetCount>>
     ELSE /\ users' = [users EXCEPT ![tasks[c].userId] = ResetUpdate(@)]
          /\ resetCount' = [resetCount EXCEPT ![tasks[c].token] = IF @ < 2 THEN @ + 1 ELSE @]
          /\ tasks' = [tasks EXCEPT ![c].pc = "done", ![c].result = "ok"]
          /\ last' = Outcome("reset", "ok", tasks[c].userId, tasks[c].token, NullToken)
  /\ UNCHANGED <<identities, nextUid, nextToken, superseded, before>>

\* UserService.inviteUser(data, invitedBy) is called
InviteCall(c, email, role) ==
  /\ tasks[c].pc = "idle"
  /\ tasks' = [tasks EXCEPT ![c] =
                 [op |-> "invite", pc |-> "check", email |-> email, role |-> role,
                  uid |-> NoUid, token |-> NullToken, result |-> "none"]]
  /\ UNCHANGED <<userVars, before>>

\* await auth.getUserByEmail(email) settles: ConflictError when it resolves
InviteCheck(c) ==
  /\ tasks[c].op = "invite"
  /\ tasks[c].pc = "check"
  /\ IF HasIdentity(tasks[c].email)
     THEN /\ tasks' = [tasks EXCEPT ![c].pc = "done", ![c].result = "ConflictError"]
          /\ last' = Outcome("invite", "ConflictError", NoUid, NullToken, NullToken)
     ELSE /\ tasks' = [tasks EXCEPT ![c].pc = "create"]
          /\ UNCHANGED last
  /\ UNCHANGED <<identities, users, nextUid, nextToken, resetCount, superseded, before>>

\* the error inviteUser throws when auth.createUser rejects with
\* auth/email-already-exists: not operational, so the catch wraps it
CreateRejected == "DatabaseError"

\* await auth.createUser({email, password: tempPassword}) settles; the provider
\* rejects an email that is registered
InviteCreate(c) ==
  /\ tasks[c].op = "invite"
  /\ tasks[c].pc = "create"
  /\ IF HasIdentity(tasks[c].email)
     THEN /\ tasks' = [tasks EXCEPT ![c].pc = "done", ![c].result = CreateRejected]
          /\ last' = Outcome("invite", CreateRejected, NoUid, NullToken, NullToken)
          /\ UNCHANGED <<identities, nextUid, nextToken>>
     ELSE /\ nextUid <= MaxUids
          /\ nextToken <= MaxTokens
          /\ identities' = Put(identities, nextUid,
                               [email |-> tasks[c].email, password |-> TempPassword])
          /\ nextUid' = nextUid + 1
          /\ nextToken' = nextToken + 1
          /\ tasks' = [tasks EXCEPT ![c].pc = "set", ![c].uid = nextUid,
                                    ![c].token = nextToken]
          /\ UNCHANGED last
  /\ UNCHANGED <<users, resetCount, superseded, before>>

\* await users.doc(uid).set(profile) settles
InviteSet(c) ==
  /\ tasks[c].op = "invite"
  /\ tasks[c].pc = "set"
  /\ users' = Put(users, tasks[c].uid,
                  InvitedProfile(tasks[c].email, tasks[c].role, tasks[c].token, AdminUid))
  /\ tasks' = [tasks EXCEPT ![c].pc = "mail"]
  /\ UNCHANGED <<identities, nextUid, nextToken, resetCount, superseded, last, before>>

\* await emailService.sendInvitation(...) settles and the call returns
InviteMail(c, mailFails) ==
  /\ tasks[c].op = "invite"
  /\ tasks[c].pc = "mail"
  /\ LET kind == IF mailFails THEN "ExternalServiceError" ELSE "created"
     IN /\ tasks' = [tasks EXCEPT ![c].pc = "done", ![c].result = kind]
        /\ last' = Outcome("invite", kind, tasks[c].uid, tasks[c].token,
                           IF mailFails THEN NullToken ELSE tasks[c].token)
  /\ UNCHANGED <<identities, users, nextUid, nextToken, resetCount, superseded, before>>

\* isLive of a JSON body that carries a boolean
JsonBooleans == {"bool:true", "bool:false"}

\* settings/app_settings after the write of a call that saw the document exist
\* or not: set({...updateData, createdAt}) replaces the document, update(updateData)
\* merges the fields the body carries
LiveWritten(doc, isLive, liveTitle, uid, sawExists) ==
  IF sawExists
  THEN [exists |-> TRUE, isLive |-> isLive,
        liveTitle |-> IF liveTitle # Undefined THEN liveTitle ELSE doc.liveTitle,
        updatedBy |-> uid]
  ELSE [exists |-> TRUE, isLive |-> isLive, liveTitle |-> liveTitle, updatedBy |-> uid]

\* LiveService.updateLiveStatus(data, user) is called by the admin
LiveCall(c, isLive, liveTitle) ==
  /\ tasks[c].pc = "idle"
  /\ tasks' = [tasks EXCEPT ![c] =
                 [op |-> "live", pc |-> "check", isLive |-> isLive, liveTitle |-> liveTitle,
                  uid |-> AdminUid, sawExists |-> FALSE, result |-> "none"]]
  /\ before' = IF before.taken THEN before ELSE [taken |-> TRUE, doc |-> liveSetting]
  /\ UNCHANGED <<liveVars, push>>

\* await settings.doc('app_settings').get() settles
LiveCheck(c) ==
  /\ tasks[c].op = "live"
  /\ tasks[c].pc = "check"
  /\ tasks' = [tasks EXCEPT ![c].pc = "write", ![c].sawExists = liveSetting.exists]
  /\ UNCHANGED <<liveVars, push, before>>

\* await set(...) or update(...) settles; without a broadcast the call returns
LiveWrite(c) ==
  /\ tasks[c].op = "live"
  /\ tasks[c].pc = "write"
  /\ liveSetting' = LiveWritten(liveSetting, tasks[c].isLive, tasks[c].liveTitle,
                                tasks[c].uid, tasks[c].sawExists)
  /\ IF Truthy(tasks[c].isLive)
     THEN /\ tasks' = [tasks EXCEPT ![c].pc = "notify"]
          /\ UNCHANGED <<liveReply, push>>
     ELSE /\ tasks' = [tasks EXCEPT ![c].pc = "done", ![c].result = "ok"]
          /\ liveReply' = [op |-> "updateStatus", isLive |-> tasks[c].isLive,
                           liveTitle |-> tasks[c].liveTitle, status |-> 200]
          /\ push' = NoPush
  /\ UNCHANGED before

\* await sendToTopic('all_users', ...) settles and the call returns or throws
LiveNotify(c, notifyFails) ==
  /\ tasks[c].op = "live"
  /\ tasks[c].pc = "notify"
  /\ push' = Push("live", notifyFails)
  /\ tasks' = [tasks EXCEPT ![c].pc = "done",
                            ![c].result = IF notifyFails THEN "thrown" ELSE "ok"]
  /\ liveReply' = [op |-> "updateStatus", isLive |-> tasks[c].isLive,
                   liveTitle |-> tasks[c].liveTitle,
                   status |-> IF notifyFails THEN 500 ELSE 200]
  /\ UNCHANGED <<liveSetting, before>>

(***************************************************************************)
(* Specification of the invitation lifecycle                               *)
(***************************************************************************)
InitUsers ==
  /\ identities = (AdminUid :> [email |-> "admin@church.org", password |-> "pw1"])
  /\ users = (AdminUid :> [email |-> "admin@church.org", role |-> "admin",
                           needsPasswordReset |-> FALSE, inviteToken |-> NullToken,
                           invitedBy |-> NoUid])
  /\ nextUid = 1
  /\ nextToken = 1
  /\ resetCount = [t \in TokenIds |-> 0]
  /\ superseded = {}
  /\ last = Outcome("none", "ok", NoUid, NullToken, NullToken)

NextUsers ==
  \/ \E e \in Emails, r \in InviteRoles, f \in InviteFailures :
       InviteUser(e, r, f) /\ UNCHANGED notUserVars
  \/ \E id \in InvitedUids, r \in Roles : UpdateUserRole(id, r) /\ UNCHANGED notUserVars
  \/ \E id \in InvitedUids, f \in BOOLEAN : ResendInvitation(id, f) /\ UNCHANGED notUserVars
  \/ \E id \in InvitedUids, f \in DeleteFailures : DeleteUser(id, f) /\ UNCHANGED notUserVars
  \/ \E t \in TokenIds, p \in Passwords : ResetPassword(t, p) /\ UNCHANGED notUserVars

InitUsersSpec ==
  /\ IdleTasks
  /\ IdleContainer
  /\ IdleSessions
  /\ InitUsers /\ IdleGate /\ IdleResources /\ IdleCounters /\ IdlePages
  /\ IdleTokens /\ IdleLive /\ IdleErrors

SpecUsers == InitUsersSpec /\ [][NextUsers]_vars

(***************************************************************************)
(* Specification of the user administration with the routed invitation     *)
(* handler next to the service calls                                       *)
(***************************************************************************)
NextAdminRoutes ==
  \/ NextUsers
  \/ \E e \in Emails, r \in Roles, f \in InviteFailures :
       InviteRoute(e, r, f) /\ UNCHANGED notUserVars
  \/ \E e \in Emails, r \in Roles, f \in InviteFailures :
       UserControllerInvite(e, r, f) /\ UNCHANGED notUserVars

SpecAdminRoutes == InitUsersSpec /\ [][NextAdminRoutes]_vars

(***************************************************************************)
(* Specification of the user administration together with the public auth  *)
(* endpoints: login and verifyToken next to the service calls              *)
(***************************************************************************)
NextAuth ==
  \/ NextUsers
  \/ \E i \in LoginImpls, e \in Emails, p \in Passwords \cup {TempPassword} :
       Login(i, e, p) /\ UNCHANGED notUserVars
  \/ \E t \in TokenIds : VerifyToken(t) /\ UNCHANGED notUserVars

SpecAuth == InitUsersSpec /\ [][NextAuth]_vars

(***************************************************************************)
(* Specification of concurrent resetPassword calls: the admin invites,     *)
(* two callers reset with tokens of their choice                           *)
(***************************************************************************)
NextResetRace ==
  \/ \E e \in Emails, r \in InviteRoles : InviteUser(e, r, "none") /\ UNCHANGED notUserVars
  \/ \E c \in Tasks, t \in TokenIds, p \in Passwords :
       ResetCall(c, t, p) /\ UNCHANGED notUserTaskVars
  \/ \E c \in Tasks : ResetFind(c) /\ UNCHANGED notUserTaskVars
  \/ \E c \in Tasks : ResetCredential(c) /\ UNCHANGED notUserTaskVars
  \/ \E c \in Tasks : ResetProfile(c) /\ UNCHANGED notUserTaskVars

SpecResetRace == InitUsersSpec /\ [][NextResetRace]_vars

(***************************************************************************)
(* Specification of concurrent inviteUser calls by two admin sessions      *)
(***************************************************************************)
NextInviteRace ==
  \/ \E c \in Tasks, e \in Emails, r \in InviteRoles :
       InviteCall(c, e, r) /\ UNCHANGED notUserTaskVars
  \/ \E c \in Tasks : InviteCheck(c) /\ UNCHANGED notUserTaskVars
  \/ \E c \in Tasks : InviteCreate(c) /\ UNCHANGED notUserTaskVars
  \/ \E c \in Tasks : InviteSet(c) /\ UNCHANGED notUserTaskVars
  \/ \E c \in Tasks, f \in BOOLEAN : InviteMail(c, f) /\ UNCHANGED notUserTaskVars

SpecInviteRace == InitUsersSpec /\ [][NextInviteRace]_vars

(***************************************************************************)
(* Specification of concurrent updateLiveStatus calls, started before or   *)
(* after settings/app_settings was first written                           *)
(***************************************************************************)
InitLiveRace ==
  /\ InitUsers /\ IdleGate /\ IdleResources /\ IdleCounters /\ IdlePages /\ IdleTokens
  /\ IdleErrors /\ IdleSessions /\ IdleContainer /\ IdleTasks
  /\ liveSetting \in {NoLiveSetting,
                      LiveWritten(NoLiveSetting, "bool:false", "Culte", AdminUid, FALSE)}
  /\ liveReply = NoLiveReply

NextLiveRace ==
  \/ \E c \in Tasks, v \in JsonBooleans, t \in LiveTitles :
       LiveCall(c, v, t) /\ UNCHANGED notLiveTaskVars
  \/ \E c \in Tasks : LiveCheck(c) /\ UNCHANGED notLiveTaskVars
  \/ \E c \in Tasks : LiveWrite(c) /\ UNCHANGED notLiveTaskVars
  \/ \E c \in Tasks, f \in BOOLEAN : LiveNotify(c, f) /\ UNCHANGED notLiveTaskVars

SpecLiveRace == InitLiveRace /\ [][NextLiveRace]_vars

(***************************************************************************)
(* Specification of the role gates: requests one after the other, sent by  *)
(* the admin and by users holding any stored role or no profile at all     *)
(***************************************************************************)
StoredProfile(role) ==
  [email |-> "member@church.org", role |-> role, needsPasswordReset |-> FALSE,
   inviteToken |-> NullToken, invitedBy |-> AdminUid]

InitGateUsers ==
  \E S \in SUBSET GateUids, roleOf \in [GateUids -> Roles] :
    /\ identities = [u \in {AdminUid} \cup GateUids |->
                       [email |-> "member@church.org", password |-> "pw1"]]
    /\ users = [u \in {AdminUid} \cup S |->
                  IF u = AdminUid THEN StoredProfile("admin") ELSE StoredProfile(roleOf[u])]
    /\ nextUid = MaxGateUsers + 1
    /\ nextToken = 1
    /\ resetCount = [t \in TokenIds |-> 0]
    /\ superseded = {}
    /\ last = Outcome("none", "ok", NoUid, NullToken, NullToken)

NextGate ==
  \/ \E g \in Gates, i \in Impls, k \in HeaderKinds, u \in {AdminUid} \cup GateUids :
       GateStart(g, i, k, IF k = "valid" THEN u ELSE NoUid)
  \/ GateVerify
  \/ GateLoad
  \/ GateCatch
  \/ GateEnd

InitGate ==
  /\ IdleTasks
  /\ IdleContainer
  /\ IdleSessions
  /\ InitGateUsers /\ IdleGate /\ IdleResources /\ IdleCounters /\ IdlePages
  /\ IdleTokens /\ IdleLive /\ IdleErrors

SpecGate == InitGate /\ [][NextGate]_vars

(***************************************************************************)
(* Specification of the content resources: the admin and two moderators    *)
(***************************************************************************)
Moderators == {1, 2}

InitActors ==
  /\ identities = [u \in {AdminUid} \cup Moderators |->
                     [email |-> "member@church.org", password |-> "pw1"]]
  /\ users = [u \in {AdminUid} \cup Moderators |->
                IF u = AdminUid THEN StoredProfile("admin")
                ELSE IF u % 2 = 1 THEN StoredProfile("pasteur")
                ELSE StoredProfile("media")]
  /\ nextUid = 3
  /\ nextToken = 1
  /\ resetCount = [t \in TokenIds |-> 0]
  /\ superseded = {}
  /\ last = Outcome("none", "ok", NoUid, NullToken, NullToken)

InitResources ==
  /\ IdleTasks
  /\ IdleContainer
  /\ IdleSessions
  /\ InitActors /\ IdleGate /\ IdleResources /\ IdleCounters /\ IdlePages
  /\ IdleTokens /\ IdleLive /\ IdleErrors

NextResources ==
  \/ \E t \in ResTypes, u \in DOMAIN users, b \in BOOLEAN, f \in BOOLEAN :
       CreateResource(t, u, b, f) /\ UNCHANGED notResVars
  \/ \E t \in ResTypes, id \in DocIds, u \in DOMAIN users, b \in BOOLEAN :
       UpdateResource(t, id, u, b) /\ UNCHANGED notResVars
  \/ \E t \in ResTypes, id \in DocIds, u \in DOMAIN users :
       DeleteResource(t, id, u) /\ UNCHANGED notResVars

SpecResources == InitResources /\ [][NextResources]_vars

(***************************************************************************)
(* Specification of repeated creations: every creation may be attempted    *)
(* once more by the same or another moderator                              *)
(***************************************************************************)
MaxAttempts == MaxDocs + 1

NextRetry ==
  \E t \in ResTypes, u \in DOMAIN users, b \in BOOLEAN, f \in BOOLEAN :
    /\ nextDoc <= MaxAttempts
    /\ CreateDocument(t, u, b, f)
    /\ UNCHANGED notResVars

SpecRetry == InitResources /\ [][NextRetry]_vars

(***************************************************************************)
(* Specification of the role gates while the admin changes the roles of    *)
(* the two moderators: every caller holds a bearer token issued before the *)
(* first change                                                            *)
(***************************************************************************)
InitGateRoles ==
  /\ IdleTasks
  /\ IdleContainer
  /\ InitActors /\ IdleGate /\ IdleResources /\ IdleCounters /\ IdlePages
  /\ IdleTokens /\ IdleLive /\ IdleErrors
  /\ issuedRole = [u \in DOMAIN users |-> users[u].role]

NextGateRoles ==
  \/ NextGate
  \/ \E id \in Moderators, r \in Roles : UpdateUserRole(id, r) /\ UNCHANGED notUserVars

SpecGateRoles == InitGateRoles /\ [][NextGateRoles]_vars

(***************************************************************************)
(* Specification of the counters: callers interleave at every await        *)
(***************************************************************************)
InitCounters ==
  /\ IdleTasks
  /\ IdleContainer
  /\ IdleSessions
  /\ InitUsers /\ IdleGate /\ IdleResources /\ IdlePages /\ IdleTokens /\ IdleLive
  /\ IdleErrors
  /\ \E v \in 0..MaxStart : counters = [f \in CounterFields |-> v]
  /\ start = counters
  /\ calls = [c \in Callers |-> NoCall]

NextCounters ==
  \/ \E c \in Callers, op \in IncrementOps : BeginCall(c, op) /\ UNCHANGED notCntVars
  \/ \E c \in Callers : GetDoc(c) /\ UNCHANGED notCntVars
  \/ \E c \in Callers : UpdateDoc(c) /\ UNCHANGED notCntVars

SpecCounters == InitCounters /\ [][NextCounters]_vars

(***************************************************************************)
(* Specification of the listings: a static collection of 0..MaxItems       *)
(* documents whose ids are unrelated to their creation order               *)
(***************************************************************************)
\* creation stamp and filter key of the i-th document of the fixture
StampOf(i) == (i * 7) % 29
KeyOf(i) == IF i % 3 = 0 THEN "k2" ELSE "k1"

InitPages ==
  /\ IdleTasks
  /\ IdleContainer
  /\ IdleSessions
  /\ InitUsers /\ IdleGate /\ IdleResources /\ IdleCounters /\ IdleTokens /\ IdleLive
  /\ IdleErrors
  /\ collName \in CollNames
  /\ \E n \in 0..MaxItems :
       collection = [i \in 1..n |-> [createdAt |-> StampOf(i), key |-> KeyOf(i)]]
  /\ listing = NoListing

NextPages ==
  \/ \E r \in Keys \cup {NoKey}, l \in Limits, p \in 1..MaxPage :
       GetAllUsers(r, l, p) /\ UNCHANGED notPageVars
  \/ \E l \in Limits, p \in 1..MaxPage, c \in Keys \cup {NoKey} :
       GetAllPosts(l, p, c) /\ UNCHANGED notPageVars

SpecPages == InitPages /\ [][NextPages]_vars

(***************************************************************************)
(* Specification of generate-custom-token: authenticated callers of every  *)
(* stored role, either route                                               *)
(***************************************************************************)
InitCustomToken ==
  /\ IdleTasks
  /\ IdleContainer
  /\ IdleSessions
  /\ InitGateUsers /\ IdleGate /\ IdleResources /\ IdleCounters /\ IdlePages
  /\ IdleTokens /\ IdleLive /\ IdleErrors

NextCustomToken ==
  \E i \in TokenImpls, c \in {AdminUid} \cup GateUids, u \in {NoUid, AdminUid} \cup GateUids,
     f \in BOOLEAN :
    GenerateCustomToken(i, c, u, f) /\ UNCHANGED notTokVars

SpecCustomToken == InitCustomToken /\ [][NextCustomToken]_vars

(***************************************************************************)
(* Specification of the live setting: the admin switches the live on and   *)
(* off and sends manual notifications                                      *)
(***************************************************************************)
InitLive ==
  /\ IdleTasks
  /\ IdleContainer
  /\ IdleSessions
  /\ InitUsers /\ IdleGate /\ IdleResources /\ IdleCounters /\ IdlePages /\ IdleTokens
  /\ IdleLive /\ IdleErrors

NextLive ==
  \/ \E v \in IsLiveValues, t \in LiveTitles, f \in BOOLEAN :
       UpdateLiveStatus(v, t, AdminUid, f) /\ UNCHANGED notLiveVars
  \/ \E f \in BOOLEAN : SendLiveNotification(f) /\ UNCHANGED notLiveVars

SpecLive == InitLive /\ [][NextLive]_vars

(***************************************************************************)
(* Specification of the error responses: a process started in any          *)
(* environment answers failing requests one after the other                *)
(***************************************************************************)
InitErrors ==
  /\ IdleTasks
  /\ IdleContainer
  /\ IdleSessions
  /\ InitUsers /\ IdleGate /\ IdleResources /\ IdleCounters /\ IdlePages /\ IdleTokens
  /\ IdleLive
  /\ nodeEnv \in NodeEnvs
  /\ errorReply = NoErrorReply

NextErrors ==
  \/ \E m \in ServiceMethods, a \in Adapters, t \in RawTexts :
       AdapterThrows(m, a, t) /\ UNCHANGED notErrVars
  \/ InviteConflictThrows /\ UNCHANGED notErrVars

SpecErrors == InitErrors /\ [][NextErrors]_vars

(***************************************************************************)
(* Specification of the container: boot, then lookups by the handlers      *)
(***************************************************************************)
InitContainer ==
  /\ IdleTasks
  /\ InitUsers /\ IdleGate /\ IdleResources /\ IdleCounters /\ IdlePages /\ IdleTokens
  /\ IdleLive /\ IdleErrors /\ IdleSessions
  /\ containerImpl \in ContainerImpls
  /\ services = {}
  /\ bootPc = 1
  /\ initialized = FALSE
  /\ bootFailed = FALSE
  /\ lookup = NoLookup

NextContainer ==
  \/ BootFails /\ UNCHANGED notBoxVars
  \/ Register /\ UNCHANGED notBoxVars
  \/ FinishInitialize /\ UNCHANGED notBoxVars
  \/ \E n \in LookupNames : \E i \in 1..SitesOf(n) :
       ContainerGet(n, i) /\ UNCHANGED notBoxVars

SpecContainer == InitContainer /\ [][NextContainer]_vars

(***************************************************************************)
(* Properties of the invitation lifecycle (checked under SpecUsers)        *)
(***************************************************************************)
\* the email belongs to an identity of the provider
EmailRegistered(email) == \E u \in DOMAIN identities : identities[u].email = email

\* no profile is both invited and holding this token
NoInvitedProfile(token) ==
  \A u \in DOMAIN users : users[u].inviteToken = token => ~users[u].needsPasswordReset

\* C1: inviteUser for an email that already has an identity fails with Conflict and
\* creates neither an identity nor a profile; for a new email (all external calls
\* succeeding) it succeeds and registers the email, so the same invitation repeated
\* right after a success returns Conflict.
C1_InviteExistingConflicts ==
  [][\A e \in Emails, r \in InviteRoles, f \in InviteFailures :
       InviteUser(e, r, f) =>
         /\ EmailRegistered(e) =>
              /\ last'.result = "ConflictError"
              /\ identities' = identities
              /\ users' = users
         /\ (~EmailRegistered(e) /\ f = "none") =>
              /\ last'.result = "created"
              /\ EmailRegistered(e)']_vars

\* second invitation of an email answered Conflict while the identity exists
C1_Witness ==
  /\ last.op = "invite"
  /\ last.result = "ConflictError"
  /\ \E u \in DOMAIN identities : u # AdminUid

\* C2: resetPassword with a token that no invited profile holds (no profile has it, or
\* only profiles whose needsPasswordReset is false) returns NotFound and changes neither
\* a credential nor a profile document.
C2_ResetUnknownTokenNotFound ==
  [][\A t \in TokenIds, p \in Passwords :
       (ResetPassword(t, p) /\ NoInvitedProfile(t)) =>
         /\ last'.result = "NotFoundError"
         /\ identities' = identities
         /\ users' = users]_vars

\* a reset was refused for a token held only by an already active profile
C2_Witness ==
  /\ last.op = "reset"
  /\ last.result = "NotFoundError"
  /\ \E u \in DOMAIN users :
       users[u].inviteToken = last.token /\ ~users[u].needsPasswordReset

\* C3: a profile written by inviteUser is invited (flag true, token set); a successful
\* resetPassword with the current token rewrites the credential and leaves the profile
\* active (flag false, token null); no token ever resets a password twice, a later
\* resetPassword with a used token returns NotFound.
C3_InvitationLifecycle ==
  /\ []((last.op = "invite" /\ last.result \in {"created", "ExternalServiceError"}) =>
          /\ last.uid \in DOMAIN users
          /\ users[last.uid].needsPasswordReset
          /\ users[last.uid].inviteToken = last.token
          /\ last.token # NullToken)
  /\ [](\A t \in TokenIds : resetCount[t] <= 1)
  /\ [][\A t \in TokenIds, p \in Passwords :
          ResetPassword(t, p) =>
            /\ last'.result = "ok" =>
                 /\ users[last'.uid].inviteToken = t
                 /\ users[last'.uid].needsPasswordReset
                 /\ identities'[last'.uid].password = p
                 /\ ~users'[last'.uid].needsPasswordReset
                 /\ users'[last'.uid].inviteToken = NullToken
            /\ resetCount[t] >= 1 => last'.result = "NotFoundError"]_vars

\* a token that already reset a password was presented again and refused
C3_Witness ==
  /\ last.op = "reset"
  /\ last.result = "NotFoundError"
  /\ resetCount[last.token] = 1

\* C4: once resendInvitation has overwritten an invited user's token, resetPassword with
\* the overwritten token returns NotFound, the new token is the one that selects that
\* user, and a successful reset always carries the user's currently stored token.
C4_ResendSupersedesToken ==
  /\ [][\A t \in TokenIds, p \in Passwords :
          ResetPassword(t, p) =>
            /\ t \in superseded =>
                 (last'.result = "NotFoundError" /\ identities' = identities)
            /\ last'.result = "ok" => users[last'.uid].inviteToken = t]_vars
  /\ [][\A id \in InvitedUids, f \in BOOLEAN :
          (ResendInvitation(id, f) /\ id \in DOMAIN users /\ users[id].needsPasswordReset) =>
            /\ users[id].inviteToken \in superseded'
            /\ {u \in DOMAIN users' :
                  users'[u].inviteToken = last'.token /\ users'[u].needsPasswordReset} = {id}]_vars

\* the overwritten token of a still invited user was presented and refused
C4_Witness ==
  /\ last.op = "reset"
  /\ last.result = "NotFoundError"
  /\ last.token \in superseded
  /\ \E u \in DOMAIN users : users[u].needsPasswordReset

(***************************************************************************)
(* Properties of the role gates (checked under SpecGate)                   *)
(***************************************************************************)
\* the stored role that makes a request pass the gate
GateRoleSet(gate) == IF gate = "admin" THEN {"admin"} ELSE ModeratorRoles

\* C7: the handler behind a gate is invoked only for a request whose bearer token
\* verifies and whose stored profile role is admin (admin gate) or one of admin,
\* pasteur, media (moderator gate), and next is invoked at most once per request.
C7_GateAdmitsAllowedOnly ==
  /\ nextCalls <= 1
  /\ nextCalls >= 1 =>
       /\ req.kind = "valid"
       /\ req.uid \in DOMAIN users
       /\ users[req.uid].role \in GateRoleSet(req.gate)

\* a non-admin moderator passed the moderator gate of the asyncHandler middleware
C7_Witness ==
  /\ nextCalls = 1
  /\ pc = "done"
  /\ req.impl = "asyncHandler"
  /\ req.gate = "moderator"
  /\ users[req.uid].role = "pasteur"

\* the status the claim expects for a request the gate refuses
ExpectedGateStatus ==
  IF req.kind # "valid" THEN 401
  ELSE IF req.uid \notin DOMAIN users THEN 404
  ELSE 403

\* C8: a request refused by an asyncHandler-based gate receives exactly one HTTP error
\* response, produced by the global error handler: 401 without a valid bearer token,
\* 404 without a profile, 403 when the stored role is not allowed.
C8_GateFailureAnswered ==
  (pc = "done" /\ req.impl = "asyncHandler" /\ nextCalls = 0) =>
    /\ errorHandlerCalls = 1
    /\ responses = <<ExpectedGateStatus>>

\* C30: a request that fails authentication or authorization inside
\* verifyAdminToken or verifyModeratorToken never leaves a promise rejection
\* unhandled, so no request triggers the unhandledRejection shutdown and later
\* requests are still served.
C30_NoUnhandledRejection ==
  /\ unhandled = 0
  /\ serverUp

(***************************************************************************)
(* Properties of the role gates under role changes (SpecGateRoles)         *)
(***************************************************************************)
\* C21: the gate loads the role from the users collection on every request: once
\* updateUserRole(id, r) has completed, a gated request by user id is let through
\* exactly when r, the stored role, is allowed by the gate, whatever role the
\* profile held when the bearer token was issued.
C21_GateUsesStoredRole ==
  [][(/\ pc = "load"
      /\ pc' # "load"
      /\ last.op = "updateRole"
      /\ last.result = "ok"
      /\ last.uid = req.uid)
       => /\ req'.user = users[req.uid].role
          /\ (nextCalls' = nextCalls + 1) <=> (users[req.uid].role \in AllowedRoles(req.gate))
          /\ (nextCalls' = nextCalls) <=> (users[req.uid].role \notin AllowedRoles(req.gate))]_vars

\* a moderator demoted to user after the token was issued has been refused by the
\* moderator gate
C21_Witness ==
  /\ pc \in {"catch", "done"}
  /\ req.gate = "moderator"
  /\ req.kind = "valid"
  /\ req.uid \in DOMAIN issuedRole
  /\ issuedRole[req.uid] \in {"pasteur", "media"}
  /\ last.op = "updateRole"
  /\ last.result = "ok"
  /\ last.uid = req.uid
  /\ users[req.uid].role = "user"
  /\ req.user = "user"
  /\ nextCalls = 0

(***************************************************************************)
(* Properties of the content resources (checked under SpecResources)       *)
(***************************************************************************)
\* the step handles an update or a delete of a document that exists; every step
\* of the content controllers records its request in http
MutatesExisting ==
  /\ http'.op \in {"update", "delete"}
  /\ DocExists(http'.type, http'.id)

\* the spec's authorization rule, on the document as stored before the request
OwnerOrAdmin(id, uid) == docs[id].owner = uid \/ users[uid].role = "admin"

C19_DeleteAudioRemovesFiles ==
  [][(/\ MutatesExisting
      /\ http'.op = "delete"
      /\ http'.type = "audio"
      /\ http'.success)
       => (/\ docs[http'.id].urlA \notin files'
           /\ docs[http'.id].urlB \notin files')]_vars

\* C6: an update or delete of an Audio, Sermon or Post attempted by a moderator
\* who is neither the owner nor an admin is answered with HTTP 403, and leaves
\* the stored documents and the stored files unchanged.
C6_DeniedGets403 ==
  [][(/\ MutatesExisting
      /\ http'.type \in {"audio", "sermon", "post"}
      /\ ~OwnerOrAdmin(http'.id, http'.uid))
       => (http'.status = 403 /\ docs' = docs /\ files' = files)]_vars

\* C15 as stated: when the push broadcast fails during content creation, the
\* failure propagates as a request failure for some resource types and is
\* swallowed, creation still reporting success, for other resource types.
C15_BroadcastFailureInconsistent ==
  (http.op = "create" /\ push.sends = 1 /\ ~push.delivered)
    => /\ \E t \in ResTypes : CreateResult(t, ~push.delivered).kind = "thrown"
       /\ \E t \in ResTypes : CreateResult(t, ~push.delivered).kind = "success"

\* C15 amended: when the push broadcast fails during content creation, the
\* failure propagates as a request failure (HTTP 500 or 502) for every resource
\* type, Audio, Sermon, Event and Post alike; the document written before the
\* broadcast remains stored.
C15_BroadcastFailurePropagates ==
  (http.op = "create" /\ push.sends = 1 /\ ~push.delivered)
    => /\ ~http.success
       /\ http.status \in {500, 502}
       /\ DocExists(http.type, http.id)

\* the creation of an event was answered 500 on a rejected broadcast
C15_Witness ==
  /\ http.op = "create"
  /\ http.type = "event"
  /\ push.sends = 1 /\ ~push.delivered
  /\ http.status = 500
  /\ DocExists("event", http.id)

(***************************************************************************)
(* Properties of repeated creations (checked under SpecRetry)              *)
(***************************************************************************)
BroadcastTypes == {"post", "event", "sermon"}

\* the last request was a creation whose broadcast was rejected
CreateFailedOnBroadcast ==
  /\ http.op = "create"
  /\ http.type \in BroadcastTypes
  /\ push.sends = 1
  /\ ~push.delivered

\* C24: in createPost, createEvent and createSermon the document is written
\* before the broadcast and never removed: when the broadcast fails the caller
\* gets an error although the new document stays in the store, and retrying the
\* same creation yields a second document.
C24_FailedCreateLeavesDocument ==
  /\ [](CreateFailedOnBroadcast =>
          /\ ~http.success
          /\ http.status >= 500
          /\ http.id \in DOMAIN docs
          /\ docs[http.id].type = http.type)
  /\ [][(/\ CreateFailedOnBroadcast
         /\ http'.op = "create"
         /\ http'.type = http.type
         /\ http'.uid = http.uid)
          => /\ http'.id # http.id
             /\ {http.id, http'.id} \subseteq DOMAIN docs'
             /\ docs'[http.id].type = docs'[http'.id].type]_vars

\* the retry of a creation has failed on the broadcast as well: two documents of
\* the same type by the same moderator are stored
C24_Witness ==
  /\ CreateFailedOnBroadcast
  /\ http.id > 1
  /\ \E first \in DOMAIN docs :
       /\ first # http.id
       /\ docs[first].type = http.type
       /\ docs[first].owner = docs[http.id].owner

(***************************************************************************)
(* Properties of the counters (checked under SpecCounters)                 *)
(***************************************************************************)
\* callers whose call on the field has returned
ReturnedCalls(field) ==
  {c \in Callers : calls[c].pc = "done" /\ FieldOf(calls[c].op) = field}

\* C9: whatever the interleaving, N increment calls that ran concurrently on a
\* document (incrementPlays, incrementDownloads, the sermon's incrementDownloads,
\* likePost, the view count of getPostById) leave its counter increased by
\* exactly N: once no call is in flight each counter is its value before the
\* calls plus the number of calls made on it.
C9_ConcurrentIncrementsCounted ==
  (\A c \in Callers : calls[c].pc \in {"idle", "done"})
    => \A f \in CounterFields : counters[f] = start[f] + Cardinality(ReturnedCalls(f))

\* two getPostById calls have read the same view count before either wrote,
\* and every call has returned
C9_Witness ==
  /\ \A c \in Callers : calls[c].pc = "done"
  /\ \E c1, c2 \in Callers :
       /\ c1 # c2
       /\ calls[c1].op = "getPostById" /\ calls[c2].op = "getPostById"
       /\ calls[c1].snapshot = calls[c2].snapshot
  /\ counters["post.views"] >= start["post.views"] + 2

(***************************************************************************)
(* Properties of the listings (checked under SpecPages)                    *)
(***************************************************************************)
\* the whole ordered result of the query the listing has run
OrderedResult == OrderBy(Where(listing.key))

\* C10: over a static collection whose query matches n items, a list call with
\* page p >= 1 and limit L >= 1 returns exactly the items at positions
\* (p-1)*L .. min(p*L, n)-1 (counted from 0) of the ordered result.
C10_PageIsSliceOfOrderedResult ==
  listing.op # "none" =>
    LET n == Len(OrderedResult)
        first == (listing.page - 1) * listing.limit
        end == IF listing.page * listing.limit < n THEN listing.page * listing.limit ELSE n
    IN /\ Len(listing.items) = (IF end > first THEN end - first ELSE 0)
       /\ \A i \in 1..Len(listing.items) : listing.items[i] = OrderedResult[first + i]

\* 25 items listed with limit 20: the second page holds the last 5
C10_Witness ==
  /\ listing.op # "none"
  /\ listing.key = NoKey
  /\ Len(collection) = 25
  /\ listing.limit = 20
  /\ listing.page = 2
  /\ Len(listing.items) = 5

C14_InviteNotRolledBack ==
  [][\A e \in Emails, r \in InviteRoles, f \in InviteFailures :
       InviteUser(e, r, f) =>
         /\ (~EmailRegistered(e) /\ f = "mail") =>
              /\ last'.result = "ExternalServiceError"
              /\ nextUid \in DOMAIN identities' /\ identities'[nextUid].email = e
              /\ nextUid \in DOMAIN users'
              /\ users'[nextUid].needsPasswordReset
              /\ users'[nextUid].inviteToken = nextToken
              /\ users'[nextUid].inviteToken # NullToken
         /\ (/\ last.op = "invite" /\ last.result = "ExternalServiceError"
             /\ last.uid \in DOMAIN identities /\ identities[last.uid].email = e) =>
              /\ last'.result = "ConflictError"
              /\ identities' = identities /\ users' = users]_vars

\* an invitation has failed on the mail and left the identity and the profile
C14_Witness ==
  /\ last.op = "invite"
  /\ last.result = "ExternalServiceError"
  /\ last.uid \in DOMAIN identities
  /\ last.uid \in DOMAIN users
  /\ users[last.uid].needsPasswordReset
  /\ users[last.uid].inviteToken # NullToken

\* C18: after deleteUser(id) succeeds neither the identity nor the users/{id}
\* profile exists; if the identity deletion fails, deleteUser fails and the
\* profile record (like the identity) is left unchanged.
C18_DeleteRemovesIdentityAndProfile ==
  [][\A id \in InvitedUids, f \in DeleteFailures :
       DeleteUser(id, f) =>
         /\ last'.result = "ok" =>
              /\ id \notin DOMAIN identities'
              /\ id \notin DOMAIN users'
         /\ (f = "auth" \/ id \notin DOMAIN identities) =>
              /\ last'.result = "DatabaseError"
              /\ users' = users
              /\ identities' = identities]_vars

\* an invited user has been deleted: identity and profile are gone
C18_Witness ==
  /\ last.op = "delete"
  /\ last.result = "ok"
  /\ last.uid \in InvitedUids
  /\ last.uid < nextUid
  /\ last.uid \notin DOMAIN identities
  /\ last.uid \notin DOMAIN users

(***************************************************************************)
(* Properties of the routed invitation (checked under SpecAdminRoutes)     *)
(***************************************************************************)
\* C12: POST /api/admin/users/invite with a valid body for a new email answers
\* 201 with the new userId, and the same call repeated, like any call for an
\* email that has an identity, answers HTTP 400 with the message "User with
\* this email already exists".
C12_InviteRoute201Then400 ==
  [][\A e \in Emails, r \in InviteRoles, f \in InviteFailures :
       InviteRoute(e, r, f) =>
         /\ (~EmailRegistered(e) /\ f = "none") =>
              /\ last'.status = 201
              /\ last'.uid \in DOMAIN identities' \ DOMAIN identities
              /\ identities'[last'.uid].email = e
         /\ EmailRegistered(e) =>
              /\ last'.status = 400
              /\ last'.result = "User with this email already exists"]_vars

\* the repeated call was answered 400 while the invited identity exists
C12_Witness ==
  /\ last.op = "inviteRoute"
  /\ last.status = 400
  /\ last.result = "User with this email already exists"
  /\ \E u \in DOMAIN identities : u # AdminUid /\ u \in DOMAIN users

\* C17: through the invite endpoint a profile is only ever created with role
\* pasteur or media: every profile that appears is written by an invite request
\* and carries one of these two roles, whatever role the request asked for.
C17_InviteCreatesModeratorsOnly ==
  [][\A u \in DOMAIN users' \ DOMAIN users :
       /\ last'.op \in {"invite", "inviteRoute"}
       /\ users'[u].role \in InviteRoles]_vars

\* an invitation asking for another role was refused while an invited profile exists
C17_Witness ==
  /\ last.op \in {"invite", "inviteRoute"}
  /\ last.status = 400
  /\ last.result \in {"ValidationError", "errors"}
  /\ \E u \in DOMAIN users : u # AdminUid /\ users[u].invitedBy = AdminUid

(***************************************************************************)
(* Properties of generate-custom-token (checked under SpecCustomToken)     *)
(***************************************************************************)
\* C13: POST /api/auth/generate-custom-token issues a custom token only when the
\* authenticated caller's role is admin; every other authenticated caller is
\* refused and no custom token is produced for them.
C13_CustomTokenAdminOnly ==
  /\ \A c \in issuedTo : users[c].role = "admin"
  /\ (tokenReply.caller # NoUid /\ tokenReply.role # "admin")
       => (tokenReply.status = 403 /\ ~tokenReply.customToken)

(***************************************************************************)
(* Properties of the live setting (checked under SpecLive)                 *)
(***************************************************************************)
\* the value says true / says false
SaysTrue(v) == v \in {"bool:true", "num:1", "str:true", "str:1"}
SaysFalse(v) == v \in {"bool:false", "num:0", "str:false", "str:0"}

\* C16: updateLiveStatus sends one broadcast to all_users exactly when the
\* request's isLive is true, also while the setting is already live, and sends
\* none when isLive is false.
C16_BroadcastIffIsLive ==
  liveReply.op = "updateStatus" =>
    /\ SaysTrue(liveReply.isLive) => push.sends = 1
    /\ SaysFalse(liveReply.isLive) => push.sends = 0

(***************************************************************************)
(* Properties of the error responses (checked under SpecErrors)            *)
(***************************************************************************)
\* the text occurs in the message
Contains(message, text) == \E i \in DOMAIN message : message[i] = text

\* C20: in production an exception that is not a typed domain error is masked:
\* the response carries only the message 'An unexpected error occurred' and never
\* the underlying exception's message text, also for exceptions raised by the
\* database, identity or storage adapters inside service methods.
C20_UntypedMaskedInProduction ==
  (nodeEnv = "production" /\ errorReply.raised = "untyped") =>
    /\ errorReply.body.message = GenericMessage
    /\ ~Contains(errorReply.body.message, errorReply.text)

(***************************************************************************)
(* Properties of the service container (checked under SpecContainer)       *)
(***************************************************************************)
\* C22: after ServiceContainer.initialize() of config/serviceContainer.js has
\* completed, every name a controller or middleware looks up with container.get
\* is registered, so no lookup fails with "Service '<name>' not found".
C22_LookupNamesRegistered ==
  (containerImpl = "serviceContainer" /\ initialized) =>
    /\ LookupNames \subseteq services
    /\ lookup.found

(***************************************************************************)
(* Properties of the public auth endpoints (checked under SpecAuth)        *)
(***************************************************************************)
\* C23: AuthService.login with valid credentials for an identity that has no
\* profile document fails with NotFound (HTTP 404), distinguishable from the
\* Authentication error (401) returned for wrong credentials.
C23_LoginWithoutProfileIs404 ==
  (last.op = "login" /\ last.uid # NoUid /\ last.uid \notin DOMAIN users) =>
    /\ last.result = "NotFoundError"
    /\ last.status = 404

\* resetPassword called with the token finds a profile to reset (and succeeds
\* unless an adapter call fails)
ResetWouldSucceed(token) == ResetLookup(token) # {}

\* C28: in every reachable state verifyToken(token) reports valid:true exactly
\* when resetPassword with the same token would succeed, also after
\* resendInvitation has been called for an already activated user.
C28_VerifyTokenMatchesReset ==
  \A t \in TokenIds : (VerifyLookup(t) # {}) <=> ResetWouldSucceed(t)

\* C29: the active state is absorbing: once a user is active, no resendInvitation,
\* verifyToken, updateUserRole or resetPassword call marks the profile as invited
\* again or makes resetPassword succeed for that user.
C29_ActiveIsAbsorbing ==
  [][\A u \in DOMAIN users :
       ~users[u].needsPasswordReset =>
         /\ u \in DOMAIN users' => ~users'[u].needsPasswordReset
         /\ ~(last'.op = "reset" /\ last'.result = "ok" /\ last'.uid = u)]_vars

\* an activated user was sent a new invitation, and a resetPassword with the new
\* token has been refused
C29_Witness ==
  /\ last.op = "reset"
  /\ last.result = "NotFoundError"
  /\ \E u \in DOMAIN users :
       /\ u # AdminUid
       /\ ~users[u].needsPasswordReset
       /\ users[u].inviteToken = last.token
       /\ last.token \in TokenIds

(***************************************************************************)
(* Properties of concurrent calls (SpecResetRace, SpecInviteRace)          *)
(***************************************************************************)
\* C25: an invitation token authorizes at most one successful credential
\* rewrite: of two resetPassword calls carrying the same token, in any
\* interleaving of their steps, at most one rewrites the password and the other
\* returns NotFound.
C25_TokenResetsOnce ==
  \A c1, c2 \in Tasks :
    (/\ c1 # c2
     /\ Finished(c1, "reset")
     /\ Finished(c2, "reset")
     /\ tasks[c1].token = tasks[c2].token)
      => /\ ~(tasks[c1].rewrote /\ tasks[c2].rewrote)
         /\ tasks[c1].result = "ok" => tasks[c2].result = "NotFoundError"

\* C27: of two concurrent inviteUser calls with the same email, at most one
\* identity and at most one profile are created, and the call that loses returns
\* Conflict (the identity provider rejects createUser for a registered email).
C27_InviteRaceLoserConflicts ==
  \A c1, c2 \in Tasks :
    (/\ c1 # c2
     /\ Finished(c1, "invite")
     /\ Finished(c2, "invite")
     /\ tasks[c1].email = tasks[c2].email)
      => /\ Cardinality({u \in DOMAIN identities :
                           identities[u].email = tasks[c1].email}) <= 1
         /\ Cardinality({u \in DOMAIN users : users[u].email = tasks[c1].email}) <= 1
         /\ tasks[c1].result \in {"created", "ExternalServiceError"}
              => tasks[c2].result = "ConflictError"

\* the document after the call of task c ran alone on doc
SerialLive(doc, c) ==
  LiveWritten(doc, tasks[c].isLive, tasks[c].liveTitle, tasks[c].uid, doc.exists)

\* C26: concurrent updateLiveStatus calls are serializable: for any interleaving
\* of their existence check and their write, the final settings/app_settings
\* document equals the one some serial order of the same calls produces (a
\* liveTitle written by one call is not lost because the other omitted it).
C26_LiveUpdatesSerializable ==
  (\A c \in Tasks : Finished(c, "live")) =>
    \E c1, c2 \in Tasks :
      /\ c1 # c2
      /\ liveSetting = SerialLive(SerialLive(before.doc, c1), c2)

====
